---- MODULE Spec2Model ----
(***************************************************************************)
(* State-machine model of the FHEVM example tooling:                       *)
(*   - generate-docs.ts      : updateSummary (the SUMMARY.md index merger) *)
(*   - create-fhevm-example  : createExample (single-example scaffolding)  *)
(*   - create-fhevm-category : createCategoryProject (category scaffolding)*)
(* Text is modelled as a sequence of one-character strings so that the     *)
(* substring, split, trim and join operations of the scripts are computed  *)
(* as the scripts compute them.                                            *)
(***************************************************************************)
EXTENDS Integers, Sequences, FiniteSets, TLC

VARIABLES
  summaryFile,   \* docs/SUMMARY.md: [exists |-> BOOLEAN, text |-> characters]
  prevSummary,   \* summaryFile as it was before the last updateSummary call
  calls,         \* the updateSummary calls made so far, in order (their config)
  repo,          \* the files under rootDir that the registries name: path -> node
  template,      \* the tree under rootDir/fhevm-hardhat-template: path -> node
  out,           \* the tree under outputDir: path -> node; empty when absent
  out0,          \* the tree under outputDir when the command started
  cmd,           \* the command line: [name, key], and noSummary for generate-docs.ts
  pc,            \* the step the running command is at
  status,        \* "idle", "running", "exit0" or "exit1"
  err,           \* the error reported, "none" when none
  contractName,  \* createExample: the name getContractName returned
  contractNames, \* createCategoryProject: the names pushed so far
  copiedTests,   \* createCategoryProject: the Set of test paths copied
  itemIndex,     \* createCategoryProject: index of the next contract item
  copyLog,       \* every fs.copyFileSync made from rootDir: <<source, destination>>
  docs,          \* the tree under cwd/docs, SUMMARY.md apart: path -> node
  docs0,         \* docs when the command started
  successCount,  \* generateAllDocs: let successCount
  errorCount,    \* generateAllDocs: let errorCount
  docIndex,      \* generateAllDocs: index of the next key of Object.keys(EXAMPLES_CONFIG)
  summary0,      \* docs/SUMMARY.md when the first documentation command started
  runs,          \* the number of times generate-docs.ts --all was run again
  encryptedBool,   \* PublicDecryptMultipleValues._encryptedBool (a handle)
  encryptedUint32, \* PublicDecryptMultipleValues._encryptedUint32 (a handle)
  encryptedUint64, \* PublicDecryptMultipleValues._encryptedUint64 (a handle)
  clearBool,       \* PublicDecryptMultipleValues._clearBool
  clearUint32,     \* PublicDecryptMultipleValues._clearUint32
  clearUint64,     \* PublicDecryptMultipleValues._clearUint64
  decryptable,     \* the handles FHE.makePubliclyDecryptable was called on
  inputs,          \* the arguments of the initialize transaction
  results,         \* the test's publicDecryptResults
  lastTx           \* the recordAndVerifyDecryption transaction and its outcome

docsVars == <<docs, docs0, successCount, errorCount, docIndex, summary0, runs>>

contractVars == <<encryptedBool, encryptedUint32, encryptedUint64,
                  clearBool, clearUint32, clearUint64,
                  decryptable, inputs, results, lastTx>>

indexVars == <<summaryFile, prevSummary, calls, docsVars>>

exampleVars == <<contractName>>

categoryVars == <<contractNames, copiedTests, itemIndex>>

scaffoldVars == <<repo, template, out, out0, cmd, pc, status, err,
                  contractName, contractNames, copiedTests, itemIndex, copyLog>>

vars == <<summaryFile, prevSummary, calls,
          repo, template, out, out0, cmd, pc, status, err,
          contractName, contractNames, copiedTests, itemIndex, copyLog,
          docs, docs0, successCount, errorCount, docIndex, summary0, runs,
          encryptedBool, encryptedUint32, encryptedUint64,
          clearBool, clearUint32, clearUint64,
          decryptable, inputs, results, lastTx>>

\* ------------------------------------------------------------------------
\* Bounds
\* ------------------------------------------------------------------------
MaxCalls == 4

\* how many times generate-docs.ts --all is run again after it has ended
MaxRuns == 2

\* ------------------------------------------------------------------------
\* JavaScript string and array primitives used by the scripts
\* ------------------------------------------------------------------------
NL == "\n"

SetMin(S) == CHOOSE x \in S : \A y \in S : x <= y

SetMax(S) == CHOOSE x \in S : \A y \in S : x >= y

\* String.prototype.startsWith
StartsWith(s, p) == Len(p) <= Len(s) /\ SubSeq(s, 1, Len(p)) = p

\* String.prototype.includes: substring search; the empty string is included
Includes(s, t) ==
  \E i \in 1..(Len(s) - Len(t) + 1) : SubSeq(s, i, i + Len(t) - 1) = t

\* String.prototype.trim: strip leading and trailing white space
Trim(s) ==
  LET keep == {i \in 1..Len(s) : s[i] \notin {" ", NL}}
  IN IF keep = {} THEN <<>> ELSE SubSeq(s, SetMin(keep), SetMax(keep))

\* String.prototype.split('\n')
RECURSIVE Split(_)
Split(s) ==
  LET nls == {i \in 1..Len(s) : s[i] = NL}
  IN IF nls = {} THEN <<s>>
     ELSE LET i == SetMin(nls)
          IN <<SubSeq(s, 1, i - 1)>> \o Split(SubSeq(s, i + 1, Len(s)))

\* Array.prototype.join('\n')
RECURSIVE Join(_)
Join(lines) ==
  IF Len(lines) = 0 THEN <<>>
  ELSE IF Len(lines) = 1 THEN lines[1]
  ELSE lines[1] \o <<NL>> \o Join(Tail(lines))

\* lines[i] with the 0-based index of the scripts
At(lines, i) == lines[i + 1]

\* Array.prototype.splice(idx, 0, item): insert item at 0-based index idx
Splice(lines, idx, item) ==
  SubSeq(lines, 1, idx) \o <<item>> \o SubSeq(lines, idx + 1, Len(lines))

\* path.basename: the part after the last '/'
Basename(p) ==
  LET slashes == {i \in 1..Len(p) : p[i] = "/"}
  IN IF slashes = {} THEN p ELSE SubSeq(p, SetMax(slashes) + 1, Len(p))

\* ------------------------------------------------------------------------
\* The file system as the scripts use it: a tree is a function from paths
\* (sequences of names) to nodes; a name is a stem and an extension
\* ------------------------------------------------------------------------
Name(stem, ext) == [stem |-> stem, ext |-> ext]

\* a name without extension, as directories have
Dir(stem) == Name(stem, "")

DirNode == [dir |-> TRUE, content |-> <<>>]

FileNode(content) == [dir |-> FALSE, content |-> content]

\* the tree of a path that does not exist
NoTree == [p \in {} |-> DirNode]

\* fs.existsSync
ExistsSync(tree, path) == path \in DOMAIN tree

\* fs.readdirSync: the names of the entries of a directory
ReaddirSync(tree, path) ==
  {q[Len(q)] : q \in {r \in DOMAIN tree :
                        Len(r) = Len(path) + 1 /\ SubSeq(r, 1, Len(path)) = path}}

\* fs.mkdirSync(path, { recursive: true })
MkdirSync(tree, path) ==
  [q \in DOMAIN tree \cup {SubSeq(path, 1, n) : n \in 0..Len(path)} |->
     IF q \in DOMAIN tree THEN tree[q] ELSE DirNode]

\* fs.writeFileSync and the write half of fs.copyFileSync: create or overwrite
WriteFileSync(tree, path, content) ==
  [q \in DOMAIN tree \cup {path} |->
     IF q = path THEN FileNode(content) ELSE tree[q]]

\* fs.unlinkSync
UnlinkSync(tree, path) == [q \in DOMAIN tree \ {path} |-> tree[q]]

\* file.endsWith('.sol'), file.endsWith('.ts')
EndsWith(name, ext) == name.ext = ext

\* the handle of an encrypted variable that was never assigned
ZeroHandle == [type |-> "none", value |-> 0]

\* a KMS decryption proof: the handles and the ABI-encoded values it signs;
\* intact is FALSE once bytes were appended to it
NoProof == [handles |-> <<>>, values |-> <<>>, intact |-> FALSE]

\* initialize was not called
NoInputs == [called |-> FALSE, a |-> FALSE, b |-> 0, c |-> 0]

\* fhevm.publicDecrypt was not called
NoResults == [called |-> FALSE, handles |-> <<>>,
              abiEncodedClearValues |-> <<>>, decryptionProof |-> NoProof]

\* recordAndVerifyDecryption was not called
NoTx == [called |-> FALSE, ok |-> FALSE, values |-> <<>>, proof |-> NoProof]

\* PublicDecryptMultipleValues is deployed and no transaction was sent
ContractIdle ==
  /\ encryptedBool = ZeroHandle
  /\ encryptedUint32 = ZeroHandle
  /\ encryptedUint64 = ZeroHandle
  /\ clearBool = FALSE
  /\ clearUint32 = 0
  /\ clearUint64 = 0
  /\ decryptable = {}
  /\ inputs = NoInputs
  /\ results = NoResults
  /\ lastTx = NoTx

\* generateDocs and generateAllDocs are not running
DocsIdle ==
  /\ docs = NoTree
  /\ docs0 = NoTree
  /\ successCount = 0
  /\ errorCount = 0
  /\ docIndex = 1
  /\ summary0 = [exists |-> FALSE, text |-> <<>>]
  /\ runs = 0

\* the scaffolding commands are not running
ScaffoldIdle ==
  /\ repo = NoTree
  /\ template = NoTree
  /\ out = NoTree
  /\ out0 = NoTree
  /\ cmd = [name |-> "none", key |-> "none"]
  /\ pc = "idle"
  /\ status = "idle"
  /\ err = "none"
  /\ contractName = ""
  /\ contractNames = <<>>
  /\ copiedTests = {}
  /\ itemIndex = 1
  /\ copyLog = <<>>

\* ------------------------------------------------------------------------
\* generate-docs.ts : updateSummary
\* ------------------------------------------------------------------------
\* the SUMMARY.md written when the file does not exist
DefaultSummary == <<"#", "#", " ", "B", "a", "s", "i", "c", NL, NL>>

\* const link = `- [${linkText}](${outputFileName})`
Link(config) ==
  <<"-", " ", "[">> \o config.title \o <<"]", "(">>
     \o Basename(config.output) \o <<")">>

\* const categoryHeader = `## ${config.category}`
CategoryHeader(config) == <<"#", "#", " ">> \o config.category

\* lines.findIndex(line => line.trim() === categoryHeader), -1 when none
FindCategoryIndex(lines, categoryHeader) ==
  LET hits == {i \in 0..(Len(lines) - 1) : Trim(At(lines, i)) = categoryHeader}
  IN IF hits = {} THEN -1 ELSE SetMin(hits)

\* the while loop that looks for the next category or the first blank line
RECURSIVE ScanInsertIndex(_, _)
ScanInsertIndex(lines, insertIndex) ==
  IF insertIndex < Len(lines) /\ ~StartsWith(At(lines, insertIndex), <<"#", "#">>)
  THEN IF Trim(At(lines, insertIndex)) = <<>>
       THEN insertIndex
       ELSE ScanInsertIndex(lines, insertIndex + 1)
  ELSE insertIndex

\* mutant: the test compares the whole text with `===` instead of searching it
AlreadyInSummaryExact(summary, outputFileName) == summary = outputFileName

\* if (summary.includes(outputFileName)) return
AlreadyInSummary(summary, outputFileName) == Includes(summary, outputFileName)

\* mutant: the search for an existing category header is dropped, every new
\* link gets a new block
UpdatedSummaryAlwaysNewBlock(summary, config) ==
  IF AlreadyInSummary(summary, Basename(config.output))
  THEN summary
  ELSE Trim(summary) \o <<NL, NL>> \o CategoryHeader(config)
         \o <<NL, NL>> \o Link(config) \o <<NL>>

\* the text written back by updateSummary for the text it read
UpdatedSummary(summary, config) ==
  LET link == Link(config)
      categoryHeader == CategoryHeader(config)
  IN IF AlreadyInSummary(summary, Basename(config.output))
     THEN summary
     ELSE IF Includes(summary, categoryHeader)
          THEN LET lines == Split(summary)
                   categoryIndex == FindCategoryIndex(lines, categoryHeader)
                   insertIndex == ScanInsertIndex(lines, categoryIndex + 1)
               IN Join(Splice(lines, insertIndex, link))
          ELSE Trim(summary) \o <<NL, NL>> \o categoryHeader
                 \o <<NL, NL>> \o link \o <<NL>>

\* the text updateSummary reads: the file, created with the default when absent
SummaryRead(file) == IF file.exists THEN file.text ELSE DefaultSummary

\* ------------------------------------------------------------------------
\* Inputs of the index merger: DocsConfig values (title, output, category)
\* ------------------------------------------------------------------------
Basic == <<"B", "a", "s", "i", "c">>

Advanced == <<"A", "d", "v", "a", "n", "c", "e", "d">>

Adv == <<"A", "d", "v">>

DocsConfigs ==
  { [title |-> <<"P">>, output |-> <<"d", "/", "f", ".", "m">>, category |-> Basic],
    [title |-> <<"Q">>, output |-> <<"d", "/", "g", ".", "m">>, category |-> Basic],
    [title |-> <<"R">>, output |-> <<"d", "/", "h", ".", "m">>, category |-> Advanced],
    [title |-> <<"S">>, output |-> <<"d", "/", "x", "h", ".", "m">>, category |-> Basic],
    [title |-> <<"T">>, output |-> <<"d", "/", "k", ".", "m">>, category |-> Adv],
    [title |-> <<"U">>, output |-> <<"e", "/", "f", ".", "m">>, category |-> Advanced],
    [title |-> <<"g", ".", "m">>, output |-> <<"d", "/", "n", ".", "m">>, category |-> Adv] }

\* ------------------------------------------------------------------------
\* The index merger as a state machine
\* ------------------------------------------------------------------------
InitIndex ==
  /\ summaryFile = [exists |-> FALSE, text |-> <<>>]
  /\ prevSummary = [exists |-> FALSE, text |-> <<>>]
  /\ calls = <<>>
  /\ DocsIdle
  /\ ScaffoldIdle
  /\ ContractIdle

\* updateSummary(exampleName, config): create when absent, read, merge, write
UpdateSummary(config) ==
  /\ Len(calls) < MaxCalls
  /\ summaryFile' = [exists |-> TRUE,
                     text |-> UpdatedSummary(SummaryRead(summaryFile), config)]
  /\ prevSummary' = summaryFile
  /\ calls' = Append(calls, config)
  /\ UNCHANGED <<docsVars, scaffoldVars, contractVars>>

NextIndex == \E config \in DocsConfigs : UpdateSummary(config)

SpecIndex == InitIndex /\ [][NextIndex]_vars

\* ------------------------------------------------------------------------
\* The index document as it is read back: `##` headers and
\* `- [title](file)` link lines
\* ------------------------------------------------------------------------
LastCall == calls[Len(calls)]

\* the text the last call read, and the text it left
Before == SummaryRead(prevSummary)

After == summaryFile.text

IsHeaderLine(line) == StartsWith(line, <<"#", "#">>)

IsLinkLine(line) ==
  /\ StartsWith(line, <<"-", " ", "[">>)
  /\ Includes(line, <<"]", "(">>)
  /\ line[Len(line)] = ")"

\* the file a link line points to: the text between "](" and the final ")"
LinkTarget(line) ==
  LET opens == {i \in 1..(Len(line) - 1) : line[i] = "]" /\ line[i + 1] = "("}
  IN SubSeq(line, SetMin(opens) + 2, Len(line) - 1)

\* the link lines of a sequence of lines, in order
RECURSIVE LinkLinesOf(_)
LinkLinesOf(lines) ==
  IF lines = <<>> THEN <<>>
  ELSE IF IsLinkLine(Head(lines))
       THEN <<Head(lines)>> \o LinkLinesOf(Tail(lines))
       ELSE LinkLinesOf(Tail(lines))

\* the header lines of a sequence of lines, in order
RECURSIVE HeaderLinesOf(_)
HeaderLinesOf(lines) ==
  IF lines = <<>> THEN <<>>
  ELSE IF IsHeaderLine(Head(lines))
       THEN <<Head(lines)>> \o HeaderLinesOf(Tail(lines))
       ELSE HeaderLinesOf(Tail(lines))

\* the lines that follow the first line equal to header, up to the next header
BlockLines(lines, header) ==
  LET hs == {i \in 1..Len(lines) : lines[i] = header}
  IN IF hs = {} THEN <<>>
     ELSE LET h == SetMin(hs)
              nexts == {j \in (h + 1)..Len(lines) : IsHeaderLine(lines[j])}
              stop == IF nexts = {} THEN Len(lines) ELSE SetMin(nexts) - 1
          IN SubSeq(lines, h + 1, stop)

\* the links listed under a header, in document order
BlockLinks(text, header) == LinkLinesOf(BlockLines(Split(text), header))

HasHeader(text, header) == \E i \in 1..Len(Split(text)) : Split(text)[i] = header

\* some link of the text points to the file
Linked(text, file) ==
  \E i \in 1..Len(LinkLinesOf(Split(text))) :
     LinkTarget(LinkLinesOf(Split(text))[i]) = file

RemoveAt(seq, k) == SubSeq(seq, 1, k - 1) \o SubSeq(seq, k + 1, Len(seq))

RECURSIVE StripTrailingBlank(_)
StripTrailingBlank(lines) ==
  IF lines # <<>> /\ Trim(lines[Len(lines)]) = <<>>
  THEN StripTrailingBlank(SubSeq(lines, 1, Len(lines) - 1))
  ELSE lines

\* ------------------------------------------------------------------------
\* Claims about the index merger (checked under SpecIndex)
\* ------------------------------------------------------------------------

\* C1: merging the entry that was just merged again leaves the document as it
\* is: the second merge adds, moves and removes no line.
C1_MergeIdempotent ==
  calls # <<>> => UpdatedSummary(SummaryRead(summaryFile), LastCall) = After

\* C1 witness: the last merge added its link to a document that already held
\* links, and the link is now there.
C1_Witness ==
  /\ Len(calls) >= 2
  /\ After # Before
  /\ Linked(After, Basename(LastCall.output))
  /\ Len(LinkLinesOf(Split(After))) >= 2

\* the first call that produced this link line
CallIndexOfLink(line) ==
  SetMin({i \in 1..Len(calls) : Link(calls[i]) = line} \cup {Len(calls) + 1})

InMergeOrder(links) ==
  \A i, j \in 1..Len(links) :
     i < j => CallIndexOfLink(links[i]) < CallIndexOfLink(links[j])

\* C2: when a merge adds a link under a header that already exists, the link
\* goes after every link already listed under that header, so that the links
\* of every block are in the order in which they were merged.
C2_AppendedAfterExistingLinks ==
  calls # <<>> =>
    /\ (After # Before /\ HasHeader(Before, CategoryHeader(LastCall)))
          => BlockLinks(After, CategoryHeader(LastCall))
               = Append(BlockLinks(Before, CategoryHeader(LastCall)), Link(LastCall))
    /\ \A i \in 1..Len(calls) :
          InMergeOrder(BlockLinks(After, CategoryHeader(calls[i])))

\* the 1-based line number of the first line equal to header, 0 when none
HeaderLineNo(text, header) ==
  SetMin({i \in 1..Len(Split(text)) : Split(text)[i] = header}
           \cup {Len(Split(text)) + 1}) % (Len(Split(text)) + 1)

\* C3: after merging entries of categories C1, C2, C1 (C1 # C2, three
\* different files) into an absent index, C1's block lists its two entries in
\* merge order and is followed by C2's block: blocks are in first-appearance
\* order.  Stated for the runs in which each of the three merges added its
\* link, so that the order of the blocks and links is all that is judged.
C3_BlocksInFirstAppearanceOrder ==
  ( /\ Len(calls) = 3
    /\ calls[1].category = calls[3].category
    /\ calls[1].category # calls[2].category
    /\ \A i, j \in 1..3 :
          i # j => Basename(calls[i].output) # Basename(calls[j].output)
    /\ \A i \in 1..3 :
          \E k \in 1..Len(Split(After)) : Split(After)[k] = Link(calls[i]) )
  => /\ BlockLinks(After, CategoryHeader(calls[1]))
          = <<Link(calls[1]), Link(calls[3])>>
     /\ BlockLinks(After, CategoryHeader(calls[2])) = <<Link(calls[2])>>
     /\ HeaderLineNo(After, CategoryHeader(calls[1])) > 0
     /\ HeaderLineNo(After, CategoryHeader(calls[1]))
          < HeaderLineNo(After, CategoryHeader(calls[2]))

\* C4: a merge is a no-op exactly when some link of the document already
\* points to the entry's file; otherwise it adds exactly one link line,
\* `- [title](file)`, and nothing else changes among the links.
C4_NoOpIffTargetLinked ==
  calls # <<>> =>
    IF Linked(Before, Basename(LastCall.output))
    THEN After = Before
    ELSE \E k \in 1..Len(LinkLinesOf(Split(After))) :
            /\ LinkLinesOf(Split(After))[k] = Link(LastCall)
            /\ RemoveAt(LinkLinesOf(Split(After)), k) = LinkLinesOf(Split(Before))

\* C5: when the entry's file is not linked yet and no header line equals
\* `## category`, the merge appends, after a blank line, a block made of that
\* header and the new link at the end of the document, and inserts nothing
\* anywhere else.  Stated for the merges that changed the document, so that
\* the place of the insertion is all that is judged.
C5_NewCategoryAppendedAtEnd ==
  ( /\ calls # <<>>
    /\ After # Before
    /\ ~Linked(Before, Basename(LastCall.output))
    /\ ~HasHeader(Before, CategoryHeader(LastCall)) )
  => \E gap \in {<<>>, <<<<>>>>} :
        StripTrailingBlank(Split(After))
          = StripTrailingBlank(Split(Before))
              \o <<<<>>, CategoryHeader(LastCall)>> \o gap \o <<Link(LastCall)>>

C7_BasicBasicAdvanced ==
  ( /\ Len(calls) = 3
    /\ calls[1].category = Basic
    /\ calls[2].category = Basic
    /\ calls[3].category = Advanced
    /\ \A i, j \in 1..3 : i # j => calls[i].output # calls[j].output )
  => /\ HeaderLinesOf(Split(After))
          = <<CategoryHeader(calls[1]), CategoryHeader(calls[3])>>
     /\ BlockLinks(After, CategoryHeader(calls[1]))
          = <<Link(calls[1]), Link(calls[2])>>
     /\ BlockLinks(After, CategoryHeader(calls[3])) = <<Link(calls[3])>>
     /\ Split(After)[HeaderLineNo(After, CategoryHeader(calls[3])) - 1] = <<>>

\* ------------------------------------------------------------------------
\* create-fhevm-example.ts : helpers
\* ------------------------------------------------------------------------
\* mutant: no directory is skipped
ExcludedDirsNone == {}

\* the directories copyDirectoryRecursive skips
ExcludedDirs ==
  { Dir("node_modules"), Dir("artifacts"), Dir("cache"),
    Dir("coverage"), Dir("types"), Dir("dist") }

\* copyDirectoryRecursive(source, destination): source is a path of the tree
\* src, destination a path of the tree dst; the result is the new dst
RECURSIVE CopyDirectoryRecursive(_, _, _, _, _), CopyItems(_, _, _, _, _, _)
CopyDirectoryRecursive(src, source, dst, destination, excludeDirs) ==
  CopyItems(src, source,
            IF ExistsSync(dst, destination) THEN dst ELSE MkdirSync(dst, destination),
            destination, excludeDirs, ReaddirSync(src, source))

\* the items.forEach of copyDirectoryRecursive
CopyItems(src, source, dst, destination, excludeDirs, items) ==
  IF items = {} THEN dst
  ELSE LET item == CHOOSE i \in items : TRUE
           sourcePath == Append(source, item)
           destPath == Append(destination, item)
           copied ==
             IF src[sourcePath].dir
             THEN IF item \in excludeDirs THEN dst
                  ELSE CopyDirectoryRecursive(src, sourcePath, dst, destPath, excludeDirs)
             ELSE WriteFileSync(dst, destPath, src[sourcePath].content)
       IN CopyItems(src, source, copied, destination, excludeDirs, items \ {item})

\* a text is a sequence of lines, a line a sequence of tokens separated by
\* white space; Tokens lists the tokens with whether each starts its line
RECURSIVE Tokens(_)
Tokens(text) ==
  IF text = <<>> THEN <<>>
  ELSE [i \in 1..Len(Head(text)) |-> [tok |-> Head(text)[i], first |-> i = 1]]
         \o Tokens(Tail(text))

\* \w+ : the tokens that are not punctuation
IsWord(tok) == tok \notin {"{", "}", "//", "/*", "*/", "*", ";", "(", ")"}

\* content.match(/^\s*contract\s+(\w+)(?:\s+is\s+|\s*\{)/m): "" stands for null
GetContractName(content) ==
  LET toks == Tokens(content)
      hits == {i \in 1..(Len(toks) - 2) :
                 /\ toks[i].first
                 /\ toks[i].tok = "contract"
                 /\ IsWord(toks[i + 1].tok)
                 /\ toks[i + 2].tok \in {"is", "{"}}
  IN IF hits = {} THEN "" ELSE toks[SetMin(hits) + 1].tok

\* contractName.charAt(0).toLowerCase() + contractName.slice(1)
LowerFirst(name) ==
  CASE name = "FHECounter" -> "fheCounter"
    [] name = "BlindAuction" -> "blindAuction"
    [] name = "Foo" -> "foo"
    [] OTHER -> name

\* the deploy/deploy.ts that updateDeployScript writes
DeployScript(name) == << <<"deploy", name>>, <<"tags", name>> >>

\* packageJson[key] = value: an existing key keeps its place, a new one is last
SetKey(json, key, value) ==
  IF \E i \in 1..Len(json) : json[i][1] = key
  THEN [i \in 1..Len(json) |-> IF json[i][1] = key THEN <<key>> \o value ELSE json[i]]
  ELSE Append(json, <<key>> \o value)

\* mutant: the package.json is written anew with the three derived keys only
UpdatePackageJsonFresh(json, exampleName, description) ==
  << <<"name", "fhevm-example-", exampleName>>,
     <<"description", description>>,
     <<"homepage", "https://github.com/zama-ai/fhevm-examples/", exampleName>> >>

\* updatePackageJson: the package.json written for the one read
UpdatePackageJson(json, exampleName, description) ==
  SetKey(SetKey(SetKey(json,
    "name", <<"fhevm-example-", exampleName>>),
    "description", <<description>>),
    "homepage", <<"https://github.com/zama-ai/fhevm-examples/", exampleName>>)

\* generateReadme
GenerateReadme(exampleName, description, name) ==
  << <<"readme", exampleName, description, name>> >>

\* taskContent.replace(/FHECounter/g, ...).replace(/fheCounter/g, ...)
ReplaceTaskNames(content, name) ==
  [i \in 1..Len(content) |->
     [j \in 1..Len(content[i]) |->
        IF content[i][j] = "FHECounter" THEN name
        ELSE IF content[i][j] = "fheCounter" THEN LowerFirst(name)
        ELSE content[i][j]]]

\* paths inside the output directory
ContractsDir == <<Dir("contracts")>>

TestDir == <<Dir("test")>>

DeployDir == <<Dir("deploy")>>

TasksDir == <<Dir("tasks")>>

PackageJsonPath == <<Name("package", "json")>>

\* fs.unlinkSync of every entry of a directory whose name ends with the extension
RECURSIVE UnlinkEnding(_, _, _, _)
UnlinkEnding(tree, dirPath, ext, names) ==
  IF names = {} THEN tree
  ELSE LET file == CHOOSE n \in names : TRUE
       IN UnlinkEnding(IF EndsWith(file, ext)
                       THEN UnlinkSync(tree, Append(dirPath, file)) ELSE tree,
                       dirPath, ext, names \ {file})

\* ------------------------------------------------------------------------
\* Inputs of the scaffolding commands
\* ------------------------------------------------------------------------
\* the registries are object literals: REGISTRY[key] is also defined, and
\* truthy, for the names every object inherits from Object.prototype;
\* "constructor" stands for them
InheritedKeys == {"constructor"}

\* EXAMPLES_MAP; testFixture <<>> stands for an absent testFixture
ExamplesMap ==
  [k \in {"fhe-counter", "blind-auction"} |->
     IF k = "fhe-counter"
     THEN [contract |-> <<Dir("contracts"), Dir("basic"), Name("FHECounter", "sol")>>,
           test |-> <<Dir("test"), Name("FHECounter", "ts")>>,
           testFixture |-> <<>>,
           description |-> "A simple FHE counter"]
     ELSE [contract |-> <<Dir("contracts"), Dir("auctions"), Name("BlindAuction", "sol")>>,
           test |-> <<Dir("test"), Dir("blindAuction"), Name("BlindAuction", "ts")>>,
           testFixture |-> <<Dir("test"), Dir("blindAuction"),
                             Name("BlindAuction.fixture", "ts")>>,
           description |-> "Sealed-bid auction"]]

\* a contract source whose first declaration line is `contract <name> is ... {`
DeclaredText(name) ==
  << <<"//", "SPDX">>,
     <<"contract", name, "is", "ZamaEthereumConfig", "{">>,
     <<"}">> >>

\* a contract source that declares `contract Foo {` whatever its file is called
RenamedText ==
  << <<"import", "x", ";">>, <<"contract", "Foo", "{">>, <<"}">> >>

\* a source without a matching declaration line
NoDeclText ==
  << <<"//", "contract", "Gone", "{">>, <<"library", "L", "{">>, <<"}">> >>

\* the tree with these directories and these files (path -> content)
TreeOf(dirs, files) ==
  [q \in dirs \cup DOMAIN files |->
     IF q \in dirs THEN DirNode ELSE FileNode(files[q])]

\* the files under rootDir: every contract is in the state c ("declared",
\* "renamed", "nodecl" or "missing"), the tests exist iff t, the fixtures iff f
RepoOf(c, t, f) ==
  LET keys == DOMAIN ExamplesMap
      contracts == IF c = "missing" THEN {} ELSE {ExamplesMap[k].contract : k \in keys}
      tests == IF t THEN {ExamplesMap[k].test : k \in keys} ELSE {}
      fixtures == IF f THEN {ExamplesMap[k].testFixture : k \in keys} \ {<<>>} ELSE {}
  IN [q \in contracts \cup tests \cup fixtures |->
        FileNode(IF q \in contracts
                 THEN (CASE c = "declared" -> DeclaredText(q[Len(q)].stem)
                         [] c = "renamed" -> RenamedText
                         [] OTHER -> NoDeclText)
                 ELSE << <<"source of", q[Len(q)].stem>> >>)]

Repos ==
  {RepoOf(c, t, f) : c \in {"declared", "renamed", "nodecl", "missing"},
                     t \in BOOLEAN, f \in BOOLEAN}

\* the package.json of the template
TemplateManifest ==
  << <<"name", "fhevm-hardhat-template">>,
     <<"description", "Hardhat-based template">>,
     <<"version", "0.1.0">>,
     <<"dependencies", "encrypted-types", "^0.0.4">>,
     <<"scripts", "compile", "hardhat compile">> >>

\* a package.json that has a homepage between its other keys, no description,
\* and already depends on a package that a category adds
TemplateManifestHomepage ==
  << <<"version", "0.2.0">>,
     <<"homepage", "https://template.example">>,
     <<"name", "tpl">>,
     <<"dependencies", "@openzeppelin/confidential-contracts", "^0.0.1",
                       "encrypted-types", "^0.0.4">>,
     <<"license", "MIT">> >>

\* fhevm-hardhat-template as the scripts expect it
TemplateStandard ==
  TreeOf({<<>>, ContractsDir, TestDir, DeployDir, TasksDir, <<Dir("node_modules")>>},
         ( PackageJsonPath :> TemplateManifest
           @@ <<Name("README", "md")>> :> << <<"template readme">> >>
           @@ Append(ContractsDir, Name("FHECounter", "sol")) :> DeclaredText("FHECounter")
           @@ Append(TestDir, Name("FHECounter", "ts")) :> << <<"template test">> >>
           @@ Append(DeployDir, Name("deploy", "ts")) :> DeployScript("FHECounter")
           @@ Append(TasksDir, Name("FHECounter", "ts"))
                :> << <<"task", "FHECounter", "fheCounter">> >>
           @@ Append(TasksDir, Name("accounts", "ts")) :> << <<"task", "accounts">> >>
           @@ <<Dir("node_modules"), Name("pkg", "js")>> :> << <<"installed">> >> ))

\* a template that ships a second contract and a helper test, has a cache
\* directory below contracts, a regular file called dist, and no tasks
TemplateExtra ==
  TreeOf({<<>>, ContractsDir, TestDir, DeployDir, Append(ContractsDir, Dir("cache"))},
         ( PackageJsonPath :> TemplateManifestHomepage
           @@ <<Dir("dist")>> :> << <<"a file called dist">> >>
           @@ Append(ContractsDir, Name("FHECounter", "sol")) :> DeclaredText("FHECounter")
           @@ Append(ContractsDir, Name("Other", "sol")) :> DeclaredText("Other")
           @@ <<Dir("contracts"), Dir("cache"), Name("build", "json")>> :> << <<"cached">> >>
           @@ Append(TestDir, Name("FHECounter", "ts")) :> << <<"template test">> >>
           @@ Append(TestDir, Name("helper", "ts")) :> << <<"template helper">> >>
           @@ Append(DeployDir, Name("deploy", "ts")) :> DeployScript("FHECounter") ))

\* a template without a deploy directory
TemplateBare ==
  TreeOf({<<>>, ContractsDir, TestDir},
         ( PackageJsonPath :> TemplateManifest
           @@ Append(ContractsDir, Name("FHECounter", "sol")) :> DeclaredText("FHECounter") ))

Templates == {TemplateStandard, TemplateExtra, TemplateBare}

\* an output directory that is already there, with somebody's files
ExistingOutput ==
  TreeOf({<<>>, ContractsDir},
         ( <<Name("notes", "txt")>> :> << <<"keep me">> >>
           @@ Append(ContractsDir, Name("FHECounter", "sol")) :> << <<"my", "contract">> >> ))

Outputs == {NoTree, ExistingOutput}

\* ------------------------------------------------------------------------
\* create-fhevm-example.ts : createExample, one action per step of the script
\* ------------------------------------------------------------------------
IndexIdle ==
  /\ summaryFile = [exists |-> FALSE, text |-> <<>>]
  /\ prevSummary = [exists |-> FALSE, text |-> <<>>]
  /\ calls = <<>>
  /\ DocsIdle

\* error(message): log and process.exit(1); an uncaught exception of an fs
\* call ends the process with status 1 as well
Exit1(e) ==
  /\ pc' = "exited"
  /\ status' = "exit1"
  /\ err' = e

\* mutant: a failing step that removes the output directory
LeftOnExitRemoved(tree) == NoTree

\* the output directory when error() or an uncaught exception ends the
\* process: no handler removes what was written, the tree stays as it is
LeftOnExit(tree) == tree

Example == ExamplesMap[cmd.key]

\* mutant: only the contract is looked for before the template is copied
MissingSourceContractOnly(example) ==
  IF ~ExistsSync(repo, example.contract) THEN "Contract not found" ELSE "none"

\* lines 282-288: the error of the first missing file, "none" when both exist
MissingSource(example) ==
  IF ~ExistsSync(repo, example.contract) THEN "Contract not found"
  ELSE IF ~ExistsSync(repo, example.test) THEN "Test not found"
  ELSE "none"

\* mutant: the output directory is never found to exist
OutputDirExistsNever(tree) == FALSE

\* fs.existsSync(outputDir)
OutputDirExists(tree) == ExistsSync(tree, <<>>)

\* lines 269-291: the example must be known, its contract and test must exist
CreateExampleValidate ==
  /\ cmd.name = "create-example" /\ pc = "validate"
  /\ IF cmd.key \notin DOMAIN ExamplesMap
     THEN IF cmd.key \in InheritedKeys
          THEN Exit1("TypeError")   \* path.join(rootDir, undefined), line 279
          ELSE Exit1("Unknown example")
     ELSE IF MissingSource(Example) # "none" THEN Exit1(MissingSource(Example))
     ELSE pc' = "copyTemplate" /\ UNCHANGED <<status, err>>
  /\ UNCHANGED <<repo, template, out, out0, cmd, contractName, copyLog>>
  /\ UNCHANGED <<contractVars, indexVars, categoryVars>>

\* lines 293-299, step 1: refuse an existing output directory, copy the template
CreateExampleCopyTemplate ==
  /\ cmd.name = "create-example" /\ pc = "copyTemplate"
  /\ IF OutputDirExists(out)
     THEN Exit1("Output directory already exists") /\ UNCHANGED out
     ELSE /\ out' = CopyDirectoryRecursive(template, <<>>, out, <<>>, ExcludedDirs)
          /\ pc' = "copyContract"
          /\ UNCHANGED <<status, err>>
  /\ UNCHANGED <<repo, template, out0, cmd, contractName, copyLog>>
  /\ UNCHANGED <<contractVars, indexVars, categoryVars>>

\* lines 301-316, step 2: name the contract after its declaration, remove the
\* template contract FHECounter.sol, copy the contract
CreateExampleCopyContract ==
  /\ cmd.name = "create-example" /\ pc = "copyContract"
  /\ LET name == GetContractName(repo[Example.contract].content)
         templateContract == Append(ContractsDir, Name("FHECounter", "sol"))
         removed == IF ExistsSync(out, templateContract)
                    THEN UnlinkSync(out, templateContract) ELSE out
     IN IF name = ""
        THEN Exit1("Could not extract contract name")
             /\ out' = LeftOnExit(out)
             /\ UNCHANGED <<contractName, copyLog>>
        ELSE IF ~ExistsSync(out, ContractsDir)
        THEN Exit1("ENOENT") /\ out' = LeftOnExit(out)
             /\ UNCHANGED <<contractName, copyLog>>
        ELSE /\ out' = WriteFileSync(removed, Append(ContractsDir, Name(name, "sol")),
                                     repo[Example.contract].content)
             /\ copyLog' = Append(copyLog,
                              <<Example.contract, Append(ContractsDir, Name(name, "sol"))>>)
             /\ contractName' = name
             /\ pc' = "copyTest"
             /\ UNCHANGED <<status, err>>
  /\ UNCHANGED <<repo, template, out0, cmd>>
  /\ UNCHANGED <<contractVars, indexVars, categoryVars>>

\* lines 318-341, step 3: remove the .ts files of test/, copy the test and,
\* when the example names one that exists, the fixture
CreateExampleCopyTest ==
  /\ cmd.name = "create-example" /\ pc = "copyTest"
  /\ IF ~ExistsSync(out, TestDir)
     THEN Exit1("ENOENT") /\ out' = LeftOnExit(out) /\ UNCHANGED copyLog
     ELSE LET cleared == UnlinkEnding(out, TestDir, "ts", ReaddirSync(out, TestDir))
              destTestPath == Append(TestDir, Example.test[Len(Example.test)])
              tested == WriteFileSync(cleared, destTestPath, repo[Example.test].content)
              fixture == Example.testFixture
              destFixturePath == Append(TestDir, fixture[Len(fixture)])
          IN /\ IF fixture # <<>> /\ ExistsSync(repo, fixture)
                THEN /\ out' = WriteFileSync(tested, destFixturePath,
                                             repo[fixture].content)
                     /\ copyLog' = copyLog \o <<<<Example.test, destTestPath>>,
                                                <<fixture, destFixturePath>>>>
                ELSE /\ out' = tested
                     /\ copyLog' = Append(copyLog, <<Example.test, destTestPath>>)
             /\ pc' = "updateConfig"
             /\ UNCHANGED <<status, err>>
  /\ UNCHANGED <<repo, template, out0, cmd, contractName>>
  /\ UNCHANGED <<contractVars, indexVars, categoryVars>>

\* lines 343-347, step 4: updateDeployScript and updatePackageJson
CreateExampleUpdateConfig ==
  /\ cmd.name = "create-example" /\ pc = "updateConfig"
  /\ LET deployed == WriteFileSync(out, Append(DeployDir, Name("deploy", "ts")),
                                   DeployScript(contractName))
     IN IF ~ExistsSync(out, DeployDir)
        THEN Exit1("ENOENT") /\ UNCHANGED out
        ELSE IF ~ExistsSync(deployed, PackageJsonPath)
        THEN Exit1("ENOENT") /\ out' = deployed
        ELSE /\ out' = WriteFileSync(deployed, PackageJsonPath,
                         UpdatePackageJson(deployed[PackageJsonPath].content,
                                           cmd.key, Example.description))
             /\ pc' = "readme"
             /\ UNCHANGED <<status, err>>
  /\ UNCHANGED <<repo, template, out0, cmd, contractName, copyLog>>
  /\ UNCHANGED <<contractVars, indexVars, categoryVars>>

\* lines 349-353, step 5: README.md
CreateExampleReadme ==
  /\ cmd.name = "create-example" /\ pc = "readme"
  /\ out' = WriteFileSync(out, <<Name("README", "md")>>,
                          GenerateReadme(cmd.key, Example.description, contractName))
  /\ pc' = "tasks"
  /\ UNCHANGED <<repo, template, out0, cmd, status, err, contractName, copyLog>>
  /\ UNCHANGED <<contractVars, indexVars, categoryVars>>

\* lines 355-398, step 6: rename tasks/FHECounter.ts after the contract, then
\* return: the process ends with status 0
CreateExampleTasks ==
  /\ cmd.name = "create-example" /\ pc = "tasks"
  /\ LET oldTaskFile == Append(TasksDir, Name("FHECounter", "ts"))
         newTaskFile == Append(TasksDir, Name(contractName, "ts"))
         written == WriteFileSync(out, newTaskFile,
                      ReplaceTaskNames(out[oldTaskFile].content, contractName))
     IN out' = IF ExistsSync(out, TasksDir) /\ ExistsSync(out, oldTaskFile)
               THEN IF oldTaskFile # newTaskFile
                    THEN UnlinkSync(written, oldTaskFile) ELSE written
               ELSE out
  /\ pc' = "exited"
  /\ status' = "exit0"
  /\ UNCHANGED <<repo, template, out0, cmd, err, contractName, copyLog>>
  /\ UNCHANGED <<contractVars, indexVars, categoryVars>>

CreateExample ==
  \/ CreateExampleValidate
  \/ CreateExampleCopyTemplate
  \/ CreateExampleCopyContract
  \/ CreateExampleCopyTest
  \/ CreateExampleUpdateConfig
  \/ CreateExampleReadme
  \/ CreateExampleTasks

\* ------------------------------------------------------------------------
\* create-fhevm-category.ts : registry and helpers
\* ------------------------------------------------------------------------
WordleDir == <<Dir("test"), Dir("fheWordle")>>

TokenDir == <<Dir("test"), Dir("openzeppelin-confidential-contracts")>>

SharedDir == <<Dir("test"), Dir("shared")>>

\* CATEGORIES; fixture <<>> stands for an absent fixture, additionalDeps is
\* the flat list package, version, ... (<<>> when the category has none).
\* "games" and "openzeppelin" are entries of the source; "shared" is a
\* CategoryConfig the source does not ship, whose two descriptors name the
\* same test, the same fixture and the same additional file; "clash" is
\* another one the source does not ship, whose two descriptors name tests of
\* the same base name in two directories
Categories ==
  [k \in {"games", "openzeppelin", "shared", "clash"} |->
     CASE k = "games" ->
          [name |-> "Game Examples",
           description |-> "Privacy-preserving games",
           contracts |->
             << [path |-> <<Dir("contracts"), Dir("fheWordle"), Name("FHEWordle", "sol")>>,
                 test |-> Append(WordleDir, Name("FHEwordle", "ts")),
                 fixture |-> Append(WordleDir, Name("FHEwordle.fixture", "ts")),
                 additionalFiles |-> <<Append(WordleDir, Name("wordslist", "ts"))>>],
                [path |-> <<Dir("contracts"), Dir("fheWordle"),
                            Name("FHEWordleFactory", "sol")>>,
                 test |-> Append(WordleDir, Name("FHEwordle", "ts")),
                 fixture |-> <<>>,
                 additionalFiles |-> <<>>] >>,
           additionalDeps |-> <<>>]
       [] k = "openzeppelin" ->
          [name |-> "OpenZeppelin Confidential Contracts",
           description |-> "ERC7984 and confidential tokens",
           contracts |->
             << [path |-> <<Dir("contracts"), Dir("oz"), Name("ERC7984Example", "sol")>>,
                 test |-> Append(TokenDir, Name("confToken.test", "ts")),
                 fixture |-> Append(TokenDir, Name("confToken.fixture", "ts")),
                 additionalFiles |-> <<>>],
                [path |-> <<Dir("contracts"), Dir("oz"),
                            Name("ERC7984ERC20WrapperMock", "sol")>>,
                 test |-> Append(TokenDir, Name("ERC7984Wrapper.test", "ts")),
                 fixture |-> <<>>,
                 additionalFiles |-> <<>>] >>,
           additionalDeps |-> <<"@openzeppelin/confidential-contracts", "^0.1.0">>]
       [] k = "clash" ->
          [name |-> "Clash Examples",
           description |-> "Two contracts with tests of the same base name",
           contracts |->
             << [path |-> <<Dir("contracts"), Dir("clash"), Name("Left", "sol")>>,
                 test |-> <<Dir("test"), Dir("a"), Name("Common", "ts")>>,
                 fixture |-> <<>>,
                 additionalFiles |-> <<>>],
                [path |-> <<Dir("contracts"), Dir("clash"), Name("Right", "sol")>>,
                 test |-> <<Dir("test"), Dir("b"), Name("Common", "ts")>>,
                 fixture |-> <<>>,
                 additionalFiles |-> <<>>] >>,
           additionalDeps |-> <<>>]
       [] OTHER ->
          [name |-> "Shared Examples",
           description |-> "Two contracts with common test files",
           contracts |->
             << [path |-> <<Dir("contracts"), Dir("shared"), Name("First", "sol")>>,
                 test |-> Append(SharedDir, Name("Common", "ts")),
                 fixture |-> Append(SharedDir, Name("Common.fixture", "ts")),
                 additionalFiles |-> <<Append(SharedDir, Name("data", "ts"))>>],
                [path |-> <<Dir("contracts"), Dir("shared"), Name("Second", "sol")>>,
                 test |-> Append(SharedDir, Name("Common", "ts")),
                 fixture |-> Append(SharedDir, Name("Common.fixture", "ts")),
                 additionalFiles |-> <<Append(SharedDir, Name("data", "ts"))>>] >>,
           additionalDeps |-> <<>>]]

\* the elements of a sequence
Range(seq) == {seq[i] : i \in 1..Len(seq)}

\* the files under rootDir for the category command: the i-th contract of every
\* category is in the state c[i], the tests exist iff t, the fixtures and
\* additional files iff f
CategoryRepoOf(c, t, f) ==
  LET items == {<<k, i>> : k \in DOMAIN Categories, i \in 1..2}
      ItemOf(ki) == Categories[ki[1]].contracts[ki[2]]
      contracts == {ItemOf(ki).path : ki \in {x \in items : c[x[2]] # "missing"}}
      StateOf(q) == c[CHOOSE i \in 1..2 : \E k \in DOMAIN Categories :
                                            Categories[k].contracts[i].path = q]
      tests == IF t THEN {ItemOf(ki).test : ki \in items} ELSE {}
      others == IF f
                THEN ({ItemOf(ki).fixture : ki \in items} \ {<<>>})
                       \cup UNION {Range(ItemOf(ki).additionalFiles) : ki \in items}
                ELSE {}
  IN [q \in contracts \cup tests \cup others |->
        FileNode(IF q \in contracts
                 THEN (CASE StateOf(q) = "declared" -> DeclaredText(q[Len(q)].stem)
                         [] StateOf(q) = "renamed" -> RenamedText
                         [] OTHER -> NoDeclText)
                 ELSE << <<"source of", q[Len(q) - 1].stem, q[Len(q)].stem>> >>)]

CategoryRepos ==
  {CategoryRepoOf(c, t, f) :
     c \in [1..2 -> {"declared", "renamed", "nodecl", "missing"}],
     t \in BOOLEAN, f \in BOOLEAN}

\* generateDeployScript: one step per name, then the tags
GenerateDeployScript(names) ==
  [i \in 1..Len(names) |-> <<"deploy", names[i]>>] \o << <<"tags", "all">> \o names >>

\* mutant: the dependencies of the category replace those of the template
MergeDepsReplace(deps, extra) == extra

\* { ...packageJson.dependencies, ...categoryInfo.additionalDeps } on the flat
\* lists package, version, ...: a package already there keeps its place and
\* takes the new version, a new package is appended
RECURSIVE MergeDeps(_, _)
MergeDeps(deps, extra) ==
  IF extra = <<>> THEN deps
  ELSE LET at == {i \in 1..Len(deps) : i % 2 = 1 /\ deps[i] = extra[1]}
           merged == IF at = {} THEN deps \o <<extra[1], extra[2]>>
                     ELSE [i \in 1..Len(deps) |->
                             IF i - 1 \in at THEN extra[2] ELSE deps[i]]
       IN MergeDeps(merged, SubSeq(extra, 3, Len(extra)))

\* packageJson.dependencies, <<>> when the key is absent
DepsOf(json) ==
  LET at == {i \in 1..Len(json) : json[i][1] = "dependencies"}
  IN IF at = {} THEN <<>> ELSE Tail(json[SetMin(at)])

\* lines 412-429: the package.json written for the one read
CategoryPackageJson(json, category) ==
  LET named == SetKey(SetKey(SetKey(json,
                 "name", <<"fhevm-examples-", category>>),
                 "description", <<Categories[category].description>>),
                 "homepage", <<"https://github.com/zama-ai/fhevm-examples/", category>>)
  IN IF Categories[category].additionalDeps # <<>>
     THEN SetKey(named, "dependencies",
                 MergeDeps(DepsOf(named), Categories[category].additionalDeps))
     ELSE named

\* generateReadme(category, contractNames)
CategoryReadme(category, names) ==
  << <<"readme", category, Categories[category].description>> \o names >>

\* ------------------------------------------------------------------------
\* create-fhevm-category.ts : createCategoryProject, one action per step
\* ------------------------------------------------------------------------
CategoryInfo == Categories[cmd.key]

\* lines 303-319: the category must be known, the output directory absent
CreateCategoryValidate ==
  /\ cmd.name = "create-category" /\ pc = "validate"
  /\ IF cmd.key \notin DOMAIN Categories \cup InheritedKeys
     THEN Exit1("Unknown category")
     ELSE IF OutputDirExists(out) THEN Exit1("Output directory already exists")
     ELSE pc' = "copyTemplate" /\ UNCHANGED <<status, err>>
  /\ UNCHANGED <<repo, template, out, out0, cmd, copyLog>>
  /\ UNCHANGED <<contractVars, indexVars, exampleVars, categoryVars>>

\* lines 321-324, step 1: copy the template
CreateCategoryCopyTemplate ==
  /\ cmd.name = "create-category" /\ pc = "copyTemplate"
  /\ out' = CopyDirectoryRecursive(template, <<>>, out, <<>>, ExcludedDirs)
  /\ pc' = "clear"
  /\ UNCHANGED <<repo, template, out0, cmd, status, err, copyLog>>
  /\ UNCHANGED <<contractVars, indexVars, exampleVars, categoryVars>>

\* lines 326-349, step 2: remove the .sol files of contracts/ and the .ts files
\* of test/; contractNames and copiedTests start empty
CreateCategoryClear ==
  /\ cmd.name = "create-category" /\ pc = "clear"
  /\ LET solRemoved == UnlinkEnding(out, ContractsDir, "sol",
                                    ReaddirSync(out, ContractsDir))
     IN IF ~ExistsSync(out, ContractsDir)
        THEN Exit1("ENOENT") /\ UNCHANGED out
        ELSE IF ~ExistsSync(out, TestDir)
        THEN Exit1("ENOENT") /\ out' = solRemoved
        ELSE /\ out' = UnlinkEnding(solRemoved, TestDir, "ts",
                                    ReaddirSync(solRemoved, TestDir))
             /\ pc' = IF cmd.key \in DOMAIN Categories /\ Len(CategoryInfo.contracts) = 0
                      THEN "deployScript" ELSE "copyItems"
             /\ UNCHANGED <<status, err>>
  /\ contractNames' = <<>>
  /\ copiedTests' = {}
  /\ itemIndex' = 1
  /\ UNCHANGED <<repo, template, out0, cmd, copyLog>>
  /\ UNCHANGED <<contractVars, indexVars, exampleVars>>

\* fs.copyFileSync(rootDir/path, testsDir/basename(path))
CopyToTests(tree, path) ==
  WriteFileSync(tree, Append(TestDir, path[Len(path)]), repo[path].content)

\* lines 390-399: every additional file that exists is copied
RECURSIVE CopyAdditionalFiles(_, _)
CopyAdditionalFiles(tree, files) ==
  IF files = <<>> THEN tree
  ELSE CopyAdditionalFiles(IF ExistsSync(repo, Head(files))
                           THEN CopyToTests(tree, Head(files)) ELSE tree,
                           Tail(files))

\* the copyLog entries of the paths that were copied into test/
RECURSIVE TestCopies(_)
TestCopies(paths) ==
  IF paths = <<>> THEN <<>>
  ELSE << <<Head(paths), Append(TestDir, Head(paths)[Len(Head(paths))])>> >>
         \o TestCopies(Tail(paths))

\* the paths of a sequence that exist under rootDir, in order
RECURSIVE Existing(_)
Existing(paths) ==
  IF paths = <<>> THEN <<>>
  ELSE (IF ExistsSync(repo, Head(paths)) THEN <<Head(paths)>> ELSE <<>>)
         \o Existing(Tail(paths))

\* mutant: the test of a descriptor whose contract is missing is copied anyway
SkipItemCopiesTest(it) ==
  /\ out' = IF ExistsSync(repo, it.test) THEN CopyToTests(out, it.test) ELSE out
  /\ copyLog' = copyLog \o TestCopies(Existing(<<it.test>>))
  /\ UNCHANGED <<contractNames, copiedTests>>

\* lines 354-357: a descriptor whose contract is missing is skipped with a
\* warning: the callback returns before it copies or records anything
SkipItem(it) == UNCHANGED <<out, contractNames, copiedTests, copyLog>>

\* mutant: a descriptor whose source declares no contract is skipped as well
ReturnsEarlyWhenUnnamed(it) ==
  \/ ~ExistsSync(repo, it.path)
  \/ GetContractName(repo[it.path].content) = ""

\* lines 354-357: the callback returns early iff the contract does not exist
ReturnsEarly(it) == ~ExistsSync(repo, it.path)

\* lines 351-401: one pass of categoryInfo.contracts.forEach
CreateCategoryCopyItem ==
  /\ cmd.name = "create-category" /\ pc = "copyItems"
  /\ cmd.key \in DOMAIN Categories
  /\ itemIndex <= Len(CategoryInfo.contracts)
  /\ LET it == CategoryInfo.contracts[itemIndex]
         name == GetContractName(repo[it.path].content)
         destContractPath == Append(ContractsDir, Name(name, "sol"))
         withContract == IF name # ""
                         THEN WriteFileSync(out, destContractPath, repo[it.path].content)
                         ELSE out
         copyTest == ExistsSync(repo, it.test) /\ it.test \notin copiedTests
         withTest == IF copyTest THEN CopyToTests(withContract, it.test)
                     ELSE withContract
         testsNow == IF copyTest THEN copiedTests \cup {it.test} ELSE copiedTests
         copyFixture == /\ it.fixture # <<>>
                        /\ ExistsSync(repo, it.fixture)
                        /\ it.fixture \notin testsNow
         withFixture == IF copyFixture THEN CopyToTests(withTest, it.fixture)
                        ELSE withTest
     IN IF ReturnsEarly(it)
        THEN SkipItem(it)
        ELSE /\ out' = CopyAdditionalFiles(withFixture, it.additionalFiles)
             /\ contractNames' = IF name # "" THEN Append(contractNames, name)
                                 ELSE contractNames
             /\ copiedTests' = IF copyFixture THEN testsNow \cup {it.fixture}
                               ELSE testsNow
             /\ copyLog' = copyLog
                  \o (IF name # "" THEN << <<it.path, destContractPath>> >> ELSE <<>>)
                  \o TestCopies(IF copyTest THEN <<it.test>> ELSE <<>>)
                  \o TestCopies(IF copyFixture THEN <<it.fixture>> ELSE <<>>)
                  \o TestCopies(Existing(it.additionalFiles))
  /\ itemIndex' = itemIndex + 1
  /\ pc' = IF itemIndex = Len(CategoryInfo.contracts) THEN "deployScript" ELSE pc
  /\ UNCHANGED <<repo, template, out0, cmd, status, err>>
  /\ UNCHANGED <<contractVars, indexVars, exampleVars>>

\* line 351 when categoryInfo is an inherited property: it has no contracts,
\* categoryInfo.contracts.forEach throws a TypeError that nothing catches
CreateCategoryCopyItemsThrow ==
  /\ cmd.name = "create-category" /\ pc = "copyItems"
  /\ cmd.key \in InheritedKeys
  /\ Exit1("TypeError")
  /\ UNCHANGED <<repo, template, out, out0, cmd, copyLog>>
  /\ UNCHANGED <<contractVars, indexVars, exampleVars, categoryVars>>

\* lines 403-410, step 4: the deployment script
CreateCategoryDeployScript ==
  /\ cmd.name = "create-category" /\ pc = "deployScript"
  /\ IF ~ExistsSync(out, DeployDir)
     THEN Exit1("ENOENT") /\ UNCHANGED out
     ELSE /\ out' = WriteFileSync(out, Append(DeployDir, Name("deploy", "ts")),
                                  GenerateDeployScript(contractNames))
          /\ pc' = "packageJson"
          /\ UNCHANGED <<status, err>>
  /\ UNCHANGED <<repo, template, out0, cmd, copyLog>>
  /\ UNCHANGED <<contractVars, indexVars, exampleVars, categoryVars>>

\* lines 412-430, step 5: package.json
CreateCategoryPackageJson ==
  /\ cmd.name = "create-category" /\ pc = "packageJson"
  /\ IF ~ExistsSync(out, PackageJsonPath)
     THEN Exit1("ENOENT") /\ UNCHANGED out
     ELSE /\ out' = WriteFileSync(out, PackageJsonPath,
                      CategoryPackageJson(out[PackageJsonPath].content, cmd.key))
          /\ pc' = "readme"
          /\ UNCHANGED <<status, err>>
  /\ UNCHANGED <<repo, template, out0, cmd, copyLog>>
  /\ UNCHANGED <<contractVars, indexVars, exampleVars, categoryVars>>

\* lines 432-455, step 6: README.md, then return: the process ends with status 0
CreateCategoryReadme ==
  /\ cmd.name = "create-category" /\ pc = "readme"
  /\ out' = WriteFileSync(out, <<Name("README", "md")>>,
                          CategoryReadme(cmd.key, contractNames))
  /\ pc' = "exited"
  /\ status' = "exit0"
  /\ UNCHANGED <<repo, template, out0, cmd, err, copyLog>>
  /\ UNCHANGED <<contractVars, indexVars, exampleVars, categoryVars>>

CreateCategoryProject ==
  \/ CreateCategoryValidate
  \/ CreateCategoryCopyTemplate
  \/ CreateCategoryClear
  \/ CreateCategoryCopyItem
  \/ CreateCategoryCopyItemsThrow
  \/ CreateCategoryDeployScript
  \/ CreateCategoryPackageJson
  \/ CreateCategoryReadme

\* ------------------------------------------------------------------------
\* The scaffolding commands as a state machine: one command line per run
\* ------------------------------------------------------------------------
Commands ==
  {[name |-> "create-example", key |-> k] :
     k \in DOMAIN ExamplesMap \cup InheritedKeys \cup {"no-such-example"}}
  \cup {[name |-> "create-category", key |-> k] :
          k \in DOMAIN Categories \cup InheritedKeys \cup {"no-such-category"}}

InitScaffold ==
  /\ IndexIdle
  /\ cmd \in Commands
  /\ repo \in IF cmd.name = "create-example" THEN Repos ELSE CategoryRepos
  /\ template \in Templates
  /\ out \in Outputs
  /\ out0 = out
  /\ pc = "validate"
  /\ status = "running"
  /\ err = "none"
  /\ contractName = ""
  /\ contractNames = <<>>
  /\ copiedTests = {}
  /\ itemIndex = 1
  /\ copyLog = <<>>
  /\ ContractIdle

NextScaffold == CreateExample \/ CreateCategoryProject

SpecScaffold == InitScaffold /\ [][NextScaffold]_vars

\* ------------------------------------------------------------------------
\* Claims about the scaffolding commands (checked under SpecScaffold)
\* ------------------------------------------------------------------------
Exited == pc = "exited"

KnownKey ==
  IF cmd.name = "create-example"
  THEN cmd.key \in DOMAIN ExamplesMap ELSE cmd.key \in DOMAIN Categories

ChecksBeforeOutputPass ==
  IF cmd.name = "create-example"
  THEN /\ KnownKey
       /\ ExistsSync(repo, Example.contract) /\ ExistsSync(repo, Example.test)
  ELSE cmd.key \in DOMAIN Categories \cup InheritedKeys

C9_MissingSourceFailsFast ==
  ( /\ cmd.name = "create-example"
    /\ cmd.key \in DOMAIN ExamplesMap
    /\ (~ExistsSync(repo, Example.contract) \/ ~ExistsSync(repo, Example.test)) )
  => /\ out = out0
     /\ copyLog = <<>>
     /\ pc \in {"validate", "exited"}
     /\ Exited =>
          /\ status = "exit1"
          /\ err = IF ~ExistsSync(repo, Example.contract)
                   THEN "Contract not found" ELSE "Test not found"

\* C9 witness: the contract is there, the test is not, the output directory
\* did not exist and the command has ended without creating it.
C9_Witness ==
  /\ Exited
  /\ cmd.name = "create-example"
  /\ cmd.key \in DOMAIN ExamplesMap
  /\ ExistsSync(repo, Example.contract)
  /\ ~ExistsSync(repo, Example.test)
  /\ err = "Test not found"
  /\ out0 = NoTree
  /\ out = NoTree

\* C10: after createExample succeeded, contracts/ holds <identifier>.sol with
\* the content of the example's contract, the identifier being the one
\* declared in that source, and no other .sol file: whatever .sol files the
\* template shipped there are gone.
C10_OnlyTheExampleContract ==
  (cmd.name = "create-example" /\ status = "exit0")
    => LET identifier == GetContractName(repo[Example.contract].content)
           copied == Append(ContractsDir, Name(identifier, "sol"))
       IN /\ {n \in ReaddirSync(out, ContractsDir) : EndsWith(n, "sol")}
               = {Name(identifier, "sol")}
          /\ ~out[copied].dir
          /\ out[copied].content = repo[Example.contract].content

\* the keys of a package.json, in order
KeysOf(json) == [i \in 1..Len(json) |-> json[i][1]]

\* a package.json without the entries of some keys
Without(json, keys) == SelectSeq(json, LAMBDA e : e[1] \notin keys)

\* the value of a key of a package.json, <<"absent">> when it has no such key
ValueOf(json, key) ==
  LET at == {i \in 1..Len(json) : json[i][1] = key}
  IN IF at = {} THEN <<"absent">> ELSE Tail(json[SetMin(at)])

\* the command is createCategoryProject and its category has additionalDeps
SuppliesDeps ==
  /\ cmd.name = "create-category"
  /\ cmd.key \in DOMAIN Categories
  /\ Categories[cmd.key].additionalDeps # <<>>

\* C11: after a successful createExample or createCategoryProject the
\* package.json of the output has name, description and homepage set to the
\* derived values (name fhevm-example-<key>, resp. fhevm-examples-<key>), every
\* other key of the template's package.json is there exactly once with its
\* value and in the same relative order, and dependencies differs from the
\* template's only for a category that supplies additionalDeps.
C11_ManifestFramed ==
  status = "exit0"
    => LET before == template[PackageJsonPath].content
           after == out[PackageJsonPath].content
           isExample == cmd.name = "create-example"
           description == IF isExample THEN Example.description
                          ELSE Categories[cmd.key].description
           derived == {"name", "description", "homepage"}
           changed == derived \cup (IF SuppliesDeps THEN {"dependencies"} ELSE {})
       IN /\ ValueOf(after, "name")
               = <<IF isExample THEN "fhevm-example-" ELSE "fhevm-examples-", cmd.key>>
          /\ ValueOf(after, "description") = <<description>>
          /\ ValueOf(after, "homepage")
               = <<"https://github.com/zama-ai/fhevm-examples/", cmd.key>>
          /\ Without(after, changed) = Without(before, changed)
          /\ \A i, j \in 1..Len(after) : after[i][1] = after[j][1] => i = j
          /\ "dependencies" \in Range(KeysOf(before))
               => KeysOf(Without(after, derived)) = KeysOf(Without(before, derived))

\* C11 witness: createExample succeeded on the template whose package.json has
\* a homepage between other keys and no description
C11_Witness ==
  /\ status = "exit0"
  /\ cmd.name = "create-example"
  /\ template[PackageJsonPath].content = TemplateManifestHomepage
  /\ KeysOf(out[PackageJsonPath].content)
       = <<"version", "homepage", "name", "dependencies", "license", "description">>

\* the identifiers of the descriptors of the category whose source exists and
\* declares a contract, in registry order
CopiedIdentifiers ==
  LET kept == SelectSeq(Categories[cmd.key].contracts,
                        LAMBDA it : /\ ExistsSync(repo, it.path)
                                    /\ GetContractName(repo[it.path].content) # "")
  IN [i \in 1..Len(kept) |-> GetContractName(repo[kept[i].path].content)]

\* the deploy/deploy.ts of the output: its deployment steps and its tag list
DeploySteps ==
  LET script == out[Append(DeployDir, Name("deploy", "ts"))].content
  IN SubSeq(script, 1, Len(script) - 1)

DeployTags ==
  LET script == out[Append(DeployDir, Name("deploy", "ts"))].content
  IN script[Len(script)]

\* the deployment steps and tags list the copied identifiers in registry
\* order, and the identifiers listed are those of the .sol files of contracts/
DeployScriptListsCopied ==
  /\ DeploySteps = [i \in 1..Len(CopiedIdentifiers) |-> <<"deploy", CopiedIdentifiers[i]>>]
  /\ DeployTags = <<"tags", "all">> \o CopiedIdentifiers
  /\ Range(CopiedIdentifiers)
       = {n.stem : n \in {f \in ReaddirSync(out, ContractsDir) : EndsWith(f, "sol")}}

\* C12: after a successful createCategoryProject the deployment script has
\* exactly one step per copied contract identifier, in registry order, its
\* tags are "all" and then those identifiers in the same order, and an
\* identifier is listed iff its <identifier>.sol was copied into contracts/.
C12_OneStepPerCopiedIdentifier ==
  (cmd.name = "create-category" /\ status = "exit0")
    => /\ DeployScriptListsCopied
       /\ \A i, j \in 1..Len(DeploySteps) : DeploySteps[i] = DeploySteps[j] => i = j

\* the source paths copied into test/ so far, in the order of the copies
TestCopySources ==
  LET copies == SelectSeq(copyLog, LAMBDA c : c[2][1] = Dir("test"))
  IN [i \in 1..Len(copies) |-> copies[i][1]]

\* how many times a path was copied into test/
TimesCopied(path) == Cardinality({i \in 1..Len(TestCopySources) : TestCopySources[i] = path})

\* the descriptors of the category that were not skipped
NonSkipped == SelectSeq(Categories[cmd.key].contracts, LAMBDA it : ExistsSync(repo, it.path))

\* the tests and fixtures of the descriptors that were not skipped
TestsAndFixtures ==
  ({NonSkipped[i].test : i \in 1..Len(NonSkipped)}
     \cup {NonSkipped[i].fixture : i \in 1..Len(NonSkipped)}) \ {<<>>}

\* C13: during a run of createCategoryProject no test, fixture or additional
\* file is copied into test/ more than once, and after a successful run every
\* existing test or fixture of the descriptors that were not skipped has been
\* copied exactly once.
C13_CopiedAtMostOnce ==
  (cmd.name = "create-category" /\ cmd.key \in DOMAIN Categories)
    => /\ \A p \in Range(TestCopySources) : TimesCopied(p) = 1
       /\ status = "exit0"
            => \A p \in TestsAndFixtures : ExistsSync(repo, p) => TimesCopied(p) = 1

\* the indices of the descriptors of the category whose contract is missing
SkippedItems ==
  {i \in 1..Len(CategoryInfo.contracts) : ~ExistsSync(repo, CategoryInfo.contracts[i].path)}

\* the contract, test, fixture and additional files of the descriptors that
\* are not skipped
PathsOfNonSkipped ==
  UNION {{NonSkipped[i].path, NonSkipped[i].test, NonSkipped[i].fixture}
           \cup Range(NonSkipped[i].additionalFiles) : i \in 1..Len(NonSkipped)}

\* C14: in createCategoryProject a descriptor whose contract is missing is
\* skipped: nothing is copied for it (every file copied belongs to a
\* descriptor that is not skipped), it adds no identifier (the identifiers,
\* once all descriptors are processed, and the deployment script are those of
\* the other descriptors), and it never fails the run: on a complete template
\* and an absent output directory the command does not exit with an error, and
\* when it has succeeded every descriptor has been processed.
C14_MissingContractSkipped ==
  (cmd.name = "create-category" /\ KnownKey /\ SkippedItems # {})
    => /\ \A c \in Range(copyLog) : c[1] \in PathsOfNonSkipped
       /\ pc \in {"deployScript", "packageJson", "readme"} \/ status = "exit0"
            => /\ contractNames = CopiedIdentifiers
               /\ itemIndex = Len(CategoryInfo.contracts) + 1
       /\ status = "exit0" => DeployScriptListsCopied
       /\ (out0 = NoTree /\ template # TemplateBare) => status # "exit1"

\* C14 witness: the first descriptor was skipped, the second copied, and the
\* command has succeeded with the second's identifier alone
C14_Witness ==
  /\ cmd.name = "create-category" /\ KnownKey
  /\ status = "exit0"
  /\ SkippedItems = {1}
  /\ Len(contractNames) = 1
  /\ \E c \in Range(copyLog) : c[1] = CategoryInfo.contracts[2].path

\* ------------------------------------------------------------------------
\* generate-docs.ts : generateDocs and generateAllDocs
\* ------------------------------------------------------------------------
\* Object.keys(EXAMPLES_CONFIG), in insertion order
ExampleNames == <<"fhe-counter", "encrypt-single-value", "fhe-add">>

\* EXAMPLES_CONFIG; output is the text that updateSummary takes the base name
\* of, page the same file as a path below cwd/docs
ExamplesConfig ==
  [k \in Range(ExampleNames) |->
     CASE k = "fhe-counter" ->
          [title |-> <<"P">>, description |-> "a confidential counter",
           contract |-> <<Dir("contracts"), Dir("basic"), Name("FHECounter", "sol")>>,
           test |-> <<Dir("test"), Dir("basic"), Name("FHECounter", "ts")>>,
           output |-> <<"d", "/", "f", ".", "m">>, page |-> <<Name("f", "m")>>,
           category |-> Basic]
       [] k = "encrypt-single-value" ->
          [title |-> <<"Q">>, description |-> "the encryption mechanism",
           contract |-> <<Dir("contracts"), Dir("basic"), Dir("encrypt"),
                          Name("EncryptSingleValue", "sol")>>,
           test |-> <<Dir("test"), Dir("basic"), Dir("encrypt"),
                      Name("EncryptSingleValue", "ts")>>,
           output |-> <<"d", "/", "g", ".", "m">>, page |-> <<Name("g", "m")>>,
           category |-> Basic]
       [] OTHER ->
          [title |-> <<"R">>, description |-> "addition on encrypted values",
           contract |-> <<Dir("contracts"), Dir("basic"), Dir("fhe-operations"),
                          Name("FHEAdd", "sol")>>,
           test |-> <<Dir("test"), Dir("basic"), Dir("fhe-operations"),
                      Name("FHEAdd", "ts")>>,
           output |-> <<"d", "/", "h", ".", "m">>, page |-> <<Name("h", "m")>>,
           category |-> Advanced]]

\* getContractName of generate-docs.ts: 'Contract' when nothing matches
GetContractNameOrDefault(content) ==
  IF GetContractName(content) = "" THEN "Contract" ELSE GetContractName(content)

\* generateGitBookMarkdown: the description, the tab of the contract titled
\* <contractName>.sol with its source, the tab of the test titled with the base
\* name of config.test with its source
GenerateGitBookMarkdown(config, contractContent, testContent) ==
  << <<config.description>>,
     <<"tab", GetContractNameOrDefault(contractContent), ".sol">> >>
    \o contractContent
    \o << <<"tab", config.test[Len(config.test)].stem, ".ts">> >>
    \o testContent

\* mutant: the output directory is made before the sources are read
DocsWhenReadingMade(tree) ==
  IF ExistsSync(tree, <<>>) THEN tree ELSE MkdirSync(tree, <<>>)

\* cwd/docs when readFile is called (lines 497-498): the output directory is
\* made and the page written only afterwards (504-511)
DocsWhenReading(tree) == tree

\* what a call of generateDocs does up to the writing of the page: "ok" with
\* the page written, "exit" when error() ended the process (process.exit is
\* not an exception and no catch block sees it), "throw" when fs threw
GenerateDocsResult(exampleName, tree) ==
  IF exampleName \in InheritedKeys
  THEN [kind |-> "throw", err |-> "TypeError", docs |-> tree]
  ELSE IF exampleName \notin DOMAIN ExamplesConfig
  THEN [kind |-> "exit", err |-> "Unknown example", docs |-> tree]
  ELSE LET config == ExamplesConfig[exampleName]
           made == IF ExistsSync(tree, <<>>) THEN tree ELSE MkdirSync(tree, <<>>)
       IN IF ~ExistsSync(repo, config.contract) \/ ~ExistsSync(repo, config.test)
          THEN [kind |-> "exit", err |-> "File not found", docs |-> DocsWhenReading(tree)]
          ELSE IF ExistsSync(made, config.page) /\ made[config.page].dir
          THEN [kind |-> "throw", err |-> "EISDIR", docs |-> made]
          ELSE [kind |-> "ok", err |-> "none",
                docs |-> WriteFileSync(made, config.page,
                           GenerateGitBookMarkdown(config, repo[config.contract].content,
                                                   repo[config.test].content))]

\* the variables of the scaffolding commands that the documentation commands
\* do not use
scaffoldOnlyVars ==
  <<template, out, out0, contractName, contractNames, copiedTests, itemIndex, copyLog>>

\* updateSummary(exampleName, config) as a step of a documentation command
MergeIntoSummary(config) ==
  /\ summaryFile' = [exists |-> TRUE,
                     text |-> UpdatedSummary(SummaryRead(summaryFile), config)]
  /\ prevSummary' = summaryFile
  /\ calls' = Append(calls, config)

\* the options main passes to generateDocs: none, generateDocs(args[0]); the
\* arguments after the first are not read
MainOptions(args) == [noSummary |-> FALSE]

\* the options generateAllDocs passes to generateDocs
BatchOptions == [noSummary |-> TRUE]

\* main with one example name: generateDocs(args[0]); an exception that
\* nothing catches ends the process with status 1
GenerateDocs ==
  /\ cmd.name = "generate-docs" /\ pc = "main"
  /\ LET r == GenerateDocsResult(cmd.key, docs)
         options == MainOptions(cmd)
     IN /\ docs' = r.docs
        /\ IF r.kind = "ok"
           THEN /\ IF ~options.noSummary
                   THEN MergeIntoSummary(ExamplesConfig[cmd.key])
                   ELSE UNCHANGED <<summaryFile, prevSummary, calls>>
                /\ pc' = "exited"
                /\ status' = "exit0"
                /\ UNCHANGED err
           ELSE Exit1(r.err) /\ UNCHANGED <<summaryFile, prevSummary, calls>>
  /\ UNCHANGED <<repo, cmd, docs0, successCount, errorCount, docIndex, summary0, runs>>
  /\ UNCHANGED <<scaffoldOnlyVars, contractVars>>

\* generateAllDocs, lines 530-539: one pass of the first loop, generateDocs
\* with noSummary inside try/catch
GenerateAllDocsItem ==
  /\ cmd.name = "generate-all" /\ pc = "main"
  /\ docIndex <= Len(ExampleNames)
  /\ LET r == GenerateDocsResult(ExampleNames[docIndex], docs)
         options == BatchOptions
     IN /\ docs' = r.docs
        /\ IF r.kind = "ok" /\ ~options.noSummary
           THEN MergeIntoSummary(ExamplesConfig[ExampleNames[docIndex]])
           ELSE UNCHANGED <<summaryFile, prevSummary, calls>>
        /\ IF r.kind = "exit"
           THEN Exit1(r.err) /\ UNCHANGED <<successCount, errorCount, docIndex>>
           ELSE /\ successCount' = IF r.kind = "ok" THEN successCount + 1 ELSE successCount
                /\ errorCount' = IF r.kind = "throw" THEN errorCount + 1 ELSE errorCount
                /\ docIndex' = IF docIndex = Len(ExampleNames) THEN 1 ELSE docIndex + 1
                /\ pc' = IF docIndex = Len(ExampleNames) THEN "summary" ELSE pc
                /\ UNCHANGED <<status, err>>
  /\ UNCHANGED <<repo, cmd, docs0, summary0, runs>>
  /\ UNCHANGED <<scaffoldOnlyVars, contractVars>>

\* generateAllDocs, lines 541-554: one pass of the second loop, updateSummary
\* for every key; after the last one the function returns, status 0
GenerateAllDocsSummary ==
  /\ cmd.name = "generate-all" /\ pc = "summary"
  /\ docIndex <= Len(ExampleNames)
  /\ MergeIntoSummary(ExamplesConfig[ExampleNames[docIndex]])
  /\ IF docIndex = Len(ExampleNames)
     THEN pc' = "exited" /\ status' = "exit0" /\ UNCHANGED docIndex
     ELSE docIndex' = docIndex + 1 /\ UNCHANGED <<pc, status>>
  /\ UNCHANGED <<repo, cmd, err, docs, docs0, successCount, errorCount, summary0, runs>>
  /\ UNCHANGED <<scaffoldOnlyVars, contractVars>>

\* main with --all, once more: the command is started again on the files the
\* run before it left under cwd
GenerateAllAgain ==
  /\ cmd.name = "generate-all" /\ pc = "exited" /\ status = "exit0"
  /\ runs < MaxRuns
  /\ runs' = runs + 1
  /\ pc' = "main"
  /\ status' = "running"
  /\ docs0' = docs
  /\ calls' = <<>>
  /\ successCount' = 0
  /\ errorCount' = 0
  /\ docIndex' = 1
  /\ UNCHANGED <<repo, cmd, err, docs, summaryFile, prevSummary, summary0>>
  /\ UNCHANGED <<scaffoldOnlyVars, contractVars>>

\* the files under cwd that EXAMPLES_CONFIG names: the contract of the i-th
\* key is in the state c[i] ("declared", "nodecl" or "missing"), its test
\* exists iff t[i]
DocsRepoOf(c, t) ==
  LET Config(i) == ExamplesConfig[ExampleNames[i]]
      n == Len(ExampleNames)
      contracts == {Config(i).contract : i \in {j \in 1..n : c[j] # "missing"}}
      tests == {Config(i).test : i \in {j \in 1..n : t[j]}}
      StateOf(q) == c[CHOOSE i \in 1..n : Config(i).contract = q]
  IN [q \in contracts \cup tests |->
        FileNode(IF q \in contracts
                 THEN (IF StateOf(q) = "declared" THEN DeclaredText(q[Len(q)].stem)
                       ELSE NoDeclText)
                 ELSE << <<"source of", q[Len(q)].stem>> >>)]

DocsRepos ==
  {DocsRepoOf(c, t) : c \in [1..Len(ExampleNames) -> {"declared", "nodecl", "missing"}],
                      t \in [1..Len(ExampleNames) -> BOOLEAN]}

\* cwd/docs when the command starts: absent, holding an older page, or
\* holding a directory where the page of the second key is to be written
DocsTrees ==
  { NoTree,
    TreeOf({<<>>}, <<Name("f", "m")>> :> << <<"an older page">> >>),
    TreeOf({<<>>, <<Name("g", "m")>>}, <<Name("old", "m")>> :> << <<"another page">> >>) }

\* noSummary: --no-summary follows the example name on the command line
DocsCommands ==
  {[name |-> "generate-docs", key |-> k, noSummary |-> f] :
     k \in Range(ExampleNames) \cup InheritedKeys \cup {"no-such-example"},
     f \in BOOLEAN}
    \cup {[name |-> "generate-all", key |-> "--all", noSummary |-> FALSE]}

InitDocs ==
  /\ cmd \in DocsCommands
  /\ repo \in DocsRepos
  /\ docs \in DocsTrees
  /\ docs0 = docs
  /\ summaryFile \in {[exists |-> FALSE, text |-> <<>>]}
                       \cup (IF docs = NoTree THEN {}
                             ELSE {[exists |-> TRUE, text |-> DefaultSummary]})
  /\ prevSummary = summaryFile
  /\ calls = <<>>
  /\ pc = "main"
  /\ status = "running"
  /\ err = "none"
  /\ successCount = 0
  /\ errorCount = 0
  /\ docIndex = 1
  /\ summary0 = summaryFile
  /\ runs = 0
  /\ template = NoTree
  /\ out = NoTree
  /\ out0 = NoTree
  /\ contractName = ""
  /\ contractNames = <<>>
  /\ copiedTests = {}
  /\ itemIndex = 1
  /\ copyLog = <<>>
  /\ ContractIdle

NextDocs ==
  GenerateDocs \/ GenerateAllDocsItem \/ GenerateAllDocsSummary \/ GenerateAllAgain

SpecDocs == InitDocs /\ [][NextDocs]_vars

\* ------------------------------------------------------------------------
\* Claims about the documentation commands (checked under SpecDocs)
\* ------------------------------------------------------------------------
\* the page of the i-th key cannot be generated: its contract or its test is
\* missing, or a directory is where the page is to be written
PageFails(i) ==
  LET config == ExamplesConfig[ExampleNames[i]]
  IN \/ ~ExistsSync(repo, config.contract)
     \/ ~ExistsSync(repo, config.test)
     \/ (ExistsSync(docs0, config.page) /\ docs0[config.page].dir)

\* the keys the first loop of generateAllDocs has dealt with
ItemsDone == IF pc = "main" THEN 1..(docIndex - 1) ELSE 1..Len(ExampleNames)

\* C15: in generateAllDocs the failure of an item, a missing contract or test
\* included, is counted and does not end the process: the command never exits
\* with an error, the counts add up to the items dealt with, errorCount counts
\* the failed ones, and the run ends after the merge pass over every key.
C15_FailuresCountedRunContinues ==
  cmd.name = "generate-all"
    => /\ status # "exit1"
       /\ errorCount = Cardinality({i \in ItemsDone : PageFails(i)})
       /\ successCount = Cardinality({i \in ItemsDone : ~PageFails(i)})
       /\ status = "exit0" => Len(calls) = Len(ExampleNames)

\* the index after updateSummary was called for every config of a list, in
\* the order of the list
RECURSIVE MergedInOrder(_, _)
MergedInOrder(file, configs) ==
  IF configs = <<>> THEN file
  ELSE MergedInOrder([exists |-> TRUE,
                      text |-> UpdatedSummary(SummaryRead(file), Head(configs))],
                     Tail(configs))

\* the configs of EXAMPLES_CONFIG in the order of Object.keys
RegistryConfigs == [i \in 1..Len(ExampleNames) |-> ExamplesConfig[ExampleNames[i]]]

\* C22: generateAllDocs merges nothing while pages are being generated, then
\* merges every entry of the registry once, in registry order; the index it
\* leaves is the one that one merge per entry in that order makes of the
\* index the first run started from, after the first run and after every
\* further run.
C22_BatchDeterminism ==
  cmd.name = "generate-all"
    => /\ pc = "main" => calls = <<>>
       /\ (pc = "main" /\ runs = 0) => summaryFile = summary0
       /\ pc = "summary" => calls = SubSeq(RegistryConfigs, 1, docIndex - 1)
       /\ status = "exit0" => calls = RegistryConfigs
       /\ (status = "exit0" \/ runs > 0)
            => summaryFile = MergedInOrder(summary0, RegistryConfigs)

\* C22 witness: a second run after the first has ended, on an index that the
\* first run created
C22_Witness ==
  /\ cmd.name = "generate-all" /\ status = "exit0" /\ runs = 2
  /\ ~summary0.exists /\ summaryFile.exists
  /\ Len(calls) = Len(ExampleNames)

\* the page of a key is in docs with the text generateGitBookMarkdown makes
\* of the key's contract and test
PageWritten(k) ==
  LET config == ExamplesConfig[k]
  IN /\ ExistsSync(docs, config.page)
     /\ ~docs[config.page].dir
     /\ docs[config.page].content
          = GenerateGitBookMarkdown(config, repo[config.contract].content,
                                    repo[config.test].content)

\* C24: documentation generated with the option that suppresses the index
\* update writes the page and leaves docs/SUMMARY.md as it was, absent when
\* it was absent: for generateDocs called with noSummary by generateAllDocs,
\* and for the command line `<example-name> --no-summary`.
C24_NoSummaryLeavesIndex ==
  /\ (cmd.name = "generate-all" /\ pc = "main" /\ runs = 0)
       => /\ summaryFile = summary0
          /\ \A i \in 1..(docIndex - 1) :
               PageFails(i) \/ PageWritten(ExampleNames[i])
  /\ (cmd.name = "generate-docs" /\ cmd.noSummary)
       => /\ summaryFile = summary0
          /\ status = "exit0" => PageWritten(cmd.key)

\* ------------------------------------------------------------------------
\* The three scripts together: one command line of any of them per run
\* ------------------------------------------------------------------------
InitTools == InitScaffold \/ InitDocs

NextTools == NextScaffold \/ NextDocs

SpecTools == InitTools /\ [][NextTools]_vars

\* ------------------------------------------------------------------------
\* Claims about the three scripts (checked under SpecTools)
\* ------------------------------------------------------------------------
\* the identifier of the first line that reads `contract <identifier> is` or
\* `contract <identifier> {`, "" when the text has no such line
FirstDeclared(content) ==
  LET hits == {i \in 1..Len(content) :
                 /\ Len(content[i]) >= 3
                 /\ content[i][1] = "contract"
                 /\ IsWord(content[i][2])
                 /\ content[i][3] \in {"is", "{"}}
  IN IF hits = {} THEN "" ELSE content[SetMin(hits)][2]

\* the file exists and has no declaration line
NoDeclaration(path) == ExistsSync(repo, path) /\ FirstDeclared(repo[path].content) = ""

\* the run reads the contract sources: known key, absent output directory and
\* a template with every directory (scaffolding), resp. contract and test
\* present and no directory where the page goes (documentation)
ReadsSources ==
  CASE cmd.name = "create-example" ->
         /\ KnownKey /\ out0 = NoTree
         /\ ExistsSync(repo, Example.contract) /\ ExistsSync(repo, Example.test)
    [] cmd.name = "create-category" ->
         KnownKey /\ out0 = NoTree /\ template # TemplateBare
    [] cmd.name = "generate-docs" ->
         /\ cmd.key \in DOMAIN ExamplesConfig
         /\ ExistsSync(repo, ExamplesConfig[cmd.key].contract)
         /\ ExistsSync(repo, ExamplesConfig[cmd.key].test)
         /\ ~ExistsSync(docs0, ExamplesConfig[cmd.key].page)
    [] OTHER -> FALSE

\* the contract sources the run reads
SourcesRead ==
  CASE cmd.name = "create-example" -> {Example.contract}
    [] cmd.name = "create-category" ->
         {CategoryInfo.contracts[i].path : i \in 1..Len(CategoryInfo.contracts)}
    [] OTHER -> {ExamplesConfig[cmd.key].contract}

\* C16: getContractName yields the identifier of the first declaration line
\* (createExample names the copied contract after it), and a source without
\* such a line makes the command fail with the name-extraction error in each
\* of createExample, createCategoryProject and generateDocs.
C16_ExtractedOrNameError ==
  (ReadsSources /\ Exited)
    => /\ (cmd.name = "create-example" /\ status = "exit0")
            => contractName = FirstDeclared(repo[Example.contract].content)
       /\ (\E p \in SourcesRead : NoDeclaration(p))
            => status = "exit1" /\ err = "Could not extract contract name"

\* the paths of the template that do not lie in or under a directory named in
\* the exclusion list
KeptPaths ==
  {q \in DOMAIN template :
     \A n \in 1..Len(q) :
        ~( /\ template[SubSeq(q, 1, n)].dir
           /\ q[n].ext = ""
           /\ q[n].stem \in {"node_modules", "artifacts", "cache",
                              "coverage", "types", "dist"} )}

\* the template has just been copied into the output directory
TemplateJustCopied ==
  \/ cmd.name = "create-example" /\ pc = "copyContract"
  \/ cmd.name = "create-category" /\ pc = "clear"

\* C17: right after copyDirectoryRecursive(templateDir, outputDir) on an
\* output directory that did not exist, the output tree is the template tree
\* without the directories named node_modules, artifacts, cache, coverage,
\* types or dist (at any depth) and all that is under them: same directories,
\* same files, same contents; a regular file with such a name is copied.
C17_CloneIsTemplateWithoutExcluded ==
  TemplateJustCopied
    => /\ out0 = NoTree
       /\ out = [q \in KeptPaths |-> template[q]]

\* C17 witness: the template with a cache directory below contracts/ and a
\* regular file called dist has been copied: the file is there, the directory
\* and the file under it are not
C17_Witness ==
  /\ TemplateJustCopied
  /\ template = TemplateExtra
  /\ ExistsSync(out, <<Dir("dist")>>)
  /\ ~ExistsSync(out, Append(ContractsDir, Dir("cache")))
  /\ ExistsSync(template, <<Dir("contracts"), Dir("cache"), Name("build", "json")>>)
  /\ ExistsSync(out, Append(ContractsDir, Name("Other", "sol")))

\* the packages of a flat list package, version, ...
PackagesOf(deps) == {deps[i] : i \in {j \in 1..Len(deps) : j % 2 = 1}}

\* the version a flat list gives a package it names
VersionOf(deps, package) ==
  deps[SetMin({i \in 1..Len(deps) : i % 2 = 1 /\ deps[i] = package}) + 1]

\* C18: after a successful createCategoryProject, when the category has
\* additionalDeps, every package of the template's dependencies is still in
\* the dependencies of the output (with the template's version unless the
\* category names it), every package of the category is there with the
\* category's version, and there is no other package; when the category has
\* none, the dependencies entry is the template's.
C18_DependenciesMerged ==
  (cmd.name = "create-category" /\ status = "exit0")
    => LET before == ValueOf(template[PackageJsonPath].content, "dependencies")
           after == ValueOf(out[PackageJsonPath].content, "dependencies")
           extra == Categories[cmd.key].additionalDeps
       IN IF extra = <<>> THEN after = before
          ELSE /\ PackagesOf(after) = PackagesOf(before) \cup PackagesOf(extra)
               /\ Len(after) = 2 * Cardinality(PackagesOf(after))
               /\ \A p \in PackagesOf(extra) : VersionOf(after, p) = VersionOf(extra, p)
               /\ \A p \in PackagesOf(before) \ PackagesOf(extra) :
                     VersionOf(after, p) = VersionOf(before, p)

\* C18 witness: the category's package was already a dependency of the
\* template at another version, next to a package the category does not name
C18_Witness ==
  /\ cmd.name = "create-category" /\ status = "exit0"
  /\ SuppliesDeps
  /\ template[PackageJsonPath].content = TemplateManifestHomepage
  /\ ValueOf(out[PackageJsonPath].content, "dependencies")
       = <<"@openzeppelin/confidential-contracts", "^0.1.0", "encrypted-types", "^0.0.4">>

\* the command takes one key of a registry and the key is not one of its keys
KeyNotInRegistry ==
  \/ cmd.name = "create-example" /\ cmd.key \notin DOMAIN ExamplesMap
  \/ cmd.name = "create-category" /\ cmd.key \notin DOMAIN Categories
  \/ cmd.name = "generate-docs" /\ cmd.key \notin DOMAIN ExamplesConfig

\* C19: createExample, createCategoryProject and generateDocs, given a key
\* that is not a key of their registry, create and change nothing (output
\* directory, documentation pages, SUMMARY.md) and end with status 1.  The
\* text of the error is not judged here, only that the command fails without
\* touching a file.
C19_UnknownKeyNoEffect ==
  KeyNotInRegistry
    => /\ out = out0
       /\ docs = docs0
       /\ summaryFile = prevSummary /\ calls = <<>>
       /\ copyLog = <<>>
       /\ Exited => status = "exit1"

(***************************************************************************)
(* PublicDecryptMultipleValues.sol and its test.  uint32 and uint64 are    *)
(* modelled with Uint32Bits and Uint64Bits bits, so that the largest value *)
(* of each type is an input.  A handle is modelled by the type and the     *)
(* clear value of the ciphertext it names.                                 *)
(***************************************************************************)

\* the number of bits that stands for the 32 bits of uint32 / euint32
Uint32Bits == 2

\* the number of bits that stands for the 64 bits of uint64 / euint64
Uint64Bits == 3

Uint32 == 0..(2^Uint32Bits - 1)

Uint64 == 0..(2^Uint64Bits - 1)

\* FHE.asEbool, FHE.asEuint32, FHE.asEuint64: the trivial encryption
AsEncrypted(type, value) == [type |-> type, value |-> value]

\* the sum the mutant of FheAdd computes: not reduced to the type's width
FheAddUnbounded(x, y, bits) == [type |-> x.type, value |-> x.value + y.value]

\* FHE.add on euint32 / euint64: the sum modulo 2^bits
FheAdd(x, y, bits) == [type |-> x.type, value |-> (x.value + y.value) % (2^bits)]

\* FHE.xor on ebool
FheXor(x, y) == [type |-> x.type, value |-> (x.value # y.value)]

\* initialize(a, b, c)
Initialize(a, b, c) ==
  /\ ~inputs.called
  /\ inputs' = [called |-> TRUE, a |-> a, b |-> b, c |-> c]
  /\ encryptedBool' = FheXor(AsEncrypted("ebool", a), AsEncrypted("ebool", FALSE))
  /\ encryptedUint32' = FheAdd(AsEncrypted("euint32", b), AsEncrypted("euint32", 1), Uint32Bits)
  /\ encryptedUint64' = FheAdd(AsEncrypted("euint64", c), AsEncrypted("euint64", 1), Uint64Bits)
  /\ decryptable' = decryptable \cup {encryptedBool', encryptedUint32', encryptedUint64'}
  /\ UNCHANGED <<clearBool, clearUint32, clearUint64, results, lastTx>>
  /\ UNCHANGED <<indexVars, scaffoldVars>>

\* one 32-byte word of the ABI encoding: the clear value of a handle
AbiWord(handle) ==
  IF handle.type = "ebool" THEN (IF handle.value THEN 1 ELSE 0) ELSE handle.value

\* the ABI encoding of the clear values of a list of handles, in its order
AbiEncode(handles) == [i \in 1..Len(handles) |-> AbiWord(handles[i])]

\* abi.decode(abiEncodedClearValues, (bool, uint32, uint64)) does not revert
AbiDecodable(words) ==
  /\ Len(words) = 3
  /\ words[1] \in {0, 1}
  /\ words[2] \in Uint32
  /\ words[3] \in Uint64

\* the handles the test passes to fhevm.publicDecrypt: the order of the
\* contract, or the uint32 handle first
HandleOrders ==
  { <<encryptedBool, encryptedUint32, encryptedUint64>>,
    <<encryptedUint32, encryptedBool, encryptedUint64>> }

\* fhevm.publicDecrypt(handles): the ordered clear values, ABI-encoded, and
\* the proof the KMS signs for these handles and these values
PublicDecrypt(handles) ==
  /\ inputs.called /\ ~results.called
  /\ \A i \in 1..Len(handles) : handles[i] \in decryptable
  /\ results' = [called |-> TRUE, handles |-> handles,
                 abiEncodedClearValues |-> AbiEncode(handles),
                 decryptionProof |-> [handles |-> handles,
                                      values |-> AbiEncode(handles),
                                      intact |-> TRUE]]
  /\ UNCHANGED <<encryptedBool, encryptedUint32, encryptedUint64,
                 clearBool, clearUint32, clearUint64, decryptable, inputs, lastTx>>
  /\ UNCHANGED <<indexVars, scaffoldVars>>

\* a verification that looks at the proof bytes alone
CheckSignaturesProofOnly(cts, abiEncodedClearValues, decryptionProof) ==
  decryptionProof.intact

\* FHE.checkSignatures(cts, abiEncodedClearValues, decryptionProof) passes
CheckSignatures(cts, abiEncodedClearValues, decryptionProof) ==
  /\ decryptionProof.intact
  /\ decryptionProof.handles = cts
  /\ decryptionProof.values = abiEncodedClearValues

\* the test's forged values: the bool negated, the integers increased
ForgedValues(words) ==
  [i \in 1..Len(words) |-> IF i = 1 /\ words[i] \in {0, 1} THEN 1 - words[i]
                           ELSE words[i] + 1]

\* the test's invalid proof: the proof with bytes appended
InvalidProof(proof) == [proof EXCEPT !.intact = FALSE]

\* recordAndVerifyDecryption(abiEncodedClearValues, decryptionProof)
RecordAndVerifyDecryption(abiEncodedClearValues, decryptionProof) ==
  LET cts == <<encryptedBool, encryptedUint32, encryptedUint64>>
      ok == /\ CheckSignatures(cts, abiEncodedClearValues, decryptionProof)
            /\ AbiDecodable(abiEncodedClearValues)
  IN /\ results.called
     /\ lastTx' = [called |-> TRUE, ok |-> ok,
                   values |-> abiEncodedClearValues, proof |-> decryptionProof]
     /\ IF ok
        THEN /\ clearBool' = (abiEncodedClearValues[1] = 1)
             /\ clearUint32' = abiEncodedClearValues[2]
             /\ clearUint64' = abiEncodedClearValues[3]
        ELSE UNCHANGED <<clearBool, clearUint32, clearUint64>>
     /\ UNCHANGED <<encryptedBool, encryptedUint32, encryptedUint64,
                    decryptable, inputs, results>>
     /\ UNCHANGED <<indexVars, scaffoldVars>>

InitDecrypt ==
  /\ summaryFile = <<>>
  /\ prevSummary = <<>>
  /\ calls = <<>>
  /\ DocsIdle
  /\ ScaffoldIdle
  /\ ContractIdle

NextDecrypt ==
  \/ \E a \in BOOLEAN, b \in Uint32, c \in Uint64 : Initialize(a, b, c)
  \/ \E handles \in HandleOrders : PublicDecrypt(handles)
  \/ \E values \in {results.abiEncodedClearValues,
                    ForgedValues(results.abiEncodedClearValues)},
        proof \in {results.decryptionProof, InvalidProof(results.decryptionProof)} :
       RecordAndVerifyDecryption(values, proof)

SpecDecrypt == InitDecrypt /\ [][NextDecrypt]_vars

\* recordAndVerifyDecryption was called with the values and the proof that
\* publicDecrypt returned for the handles in the order (bool, uint32, uint64)
AuthenticCall ==
  /\ lastTx.called
  /\ results.handles = <<encryptedBool, encryptedUint32, encryptedUint64>>
  /\ lastTx.values = results.abiEncodedClearValues
  /\ lastTx.proof = results.decryptionProof

StoredHandles == <<encryptedBool, encryptedUint32, encryptedUint64>>

\* the transaction's proof bytes are corrupted, or its values are not the
\* decryption of the stored handles, or its proof was made for another order
BadDecryption ==
  \/ ~lastTx.proof.intact
  \/ lastTx.values # AbiEncode(StoredHandles)
  \/ lastTx.proof.handles # StoredHandles

\* C21: a recordAndVerifyDecryption transaction whose proof is corrupted,
\* whose values differ from the decryption of the stored handles, or whose
\* proof was made for the handles in another order reverts, and clearBool,
\* clearUint32 and clearUint64 keep the values they had before it.
C21_BadDecryptionReverts ==
  [][(lastTx' # lastTx /\ BadDecryption')
       => /\ ~lastTx'.ok
          /\ UNCHANGED <<clearBool, clearUint32, clearUint64>>]_vars

\* C21 witness: a transaction was rejected after an accepted one, and the
\* getters still return the values the accepted one stored
C21_Witness ==
  /\ lastTx.called /\ ~lastTx.ok /\ BadDecryption
  /\ lastTx.proof.handles # StoredHandles \/ lastTx.values # AbiEncode(StoredHandles)
  /\ clearBool /\ clearUint32 = 2 /\ clearUint64 = 5

\* createExample ended with an error raised after copyDirectoryRecursive
FailedAfterClone ==
  /\ cmd.name = "create-example" /\ status = "exit1"
  /\ err \in {"Could not extract contract name", "ENOENT"}

\* C23: when createExample fails after the template was copied, the process
\* ends with status 1 and the output directory stays: every copy made from
\* rootDir is still there, and when the failure is the missing contract
\* declaration the output is the copied template as it was, the template's
\* FHECounter.sol and its tests included.
C23_NoRollback ==
  FailedAfterClone
    => /\ out0 = NoTree
       /\ ExistsSync(out, <<>>)
       /\ \A c \in Range(copyLog) :
            ExistsSync(out, c[2]) /\ out[c[2]].content = repo[c[1]].content
       /\ err = "Could not extract contract name"
            => /\ out = [q \in KeptPaths |-> template[q]]
               /\ copyLog = <<>>

\* C23 witness: the source of the example declares no contract, the command
\* has ended with the name-extraction error, and the output directory holds
\* the template's FHECounter.sol and FHECounter.ts
C23_Witness ==
  /\ FailedAfterClone /\ err = "Could not extract contract name"
  /\ GetContractName(repo[Example.contract].content) = ""
  /\ ExistsSync(out, Append(ContractsDir, Name("FHECounter", "sol")))
  /\ ExistsSync(out, Append(TestDir, Name("FHECounter", "ts")))

\* the .sol files of the output's contracts directory
SolFiles == {f \in ReaddirSync(out, ContractsDir) : EndsWith(f, "sol")}

\* C25: after a successful createCategoryProject the identifiers of the
\* deployment list are pairwise distinct and there are as many deployment
\* steps as .sol files in the output's contracts directory, each step naming
\* one of them.
C25_DeployListOneToOne ==
  (cmd.name = "create-category" /\ status = "exit0")
    => /\ \A i, j \in 1..Len(contractNames) :
            contractNames[i] = contractNames[j] => i = j
       /\ Len(DeploySteps) = Cardinality(SolFiles)
       /\ {st[2] : st \in Range(DeploySteps)} = {f.stem : f \in SolFiles}

\* C26: after a successful createCategoryProject every test, fixture or
\* additional file that was copied is in the output's test directory with
\* the content of its source.
C26_NoCopyClobbered ==
  (cmd.name = "create-category" /\ status = "exit0")
    => \A c \in Range(copyLog) :
         c[2][1] = Dir("test")
           => /\ ExistsSync(out, c[2])
              /\ out[c[2]].content = repo[c[1]].content

\* the descriptors whose source exists and declares no contract
UnnamedItems ==
  {i \in 1..Len(CategoryInfo.contracts) :
     /\ ExistsSync(repo, CategoryInfo.contracts[i].path)
     /\ GetContractName(repo[CategoryInfo.contracts[i].path].content) = ""}

\* the test, fixture and additional files of a descriptor that exist
CompanionFiles(it) ==
  {q \in ({it.test, it.fixture} \cup Range(it.additionalFiles)) \ {<<>>} :
     ExistsSync(repo, q)}

\* C27: in createCategoryProject a descriptor whose source exists and declares
\* no contract raises no error and does not end the loop: its source is not
\* copied, it adds no identifier and no deployment step, its existing test,
\* fixture and additional files are in the output's test directory once it
\* has been processed, and the loop goes on to the last descriptor.
C27_UnnamedContractTolerated ==
  (cmd.name = "create-category" /\ KnownKey /\ UnnamedItems # {})
    => /\ pc = "copyItems" => status = "running"
       /\ \A i \in UnnamedItems :
            LET it == CategoryInfo.contracts[i]
            IN /\ \A c \in Range(copyLog) : c[1] # it.path
               /\ (i < itemIndex /\ pc = "copyItems")
                    => \A q \in CompanionFiles(it) :
                         /\ \E c \in Range(copyLog) : c[1] = q
                         /\ ExistsSync(out, Append(TestDir, q[Len(q)]))
       /\ pc \in {"deployScript", "packageJson", "readme"} \/ status = "exit0"
            => /\ contractNames = CopiedIdentifiers
               /\ itemIndex = Len(CategoryInfo.contracts) + 1
               /\ \A i \in UnnamedItems :
                    \A q \in CompanionFiles(CategoryInfo.contracts[i]) :
                      \E c \in Range(copyLog) : c[1] = q
       /\ status = "exit0"
            => Len(DeploySteps) = Len(CategoryInfo.contracts)
                                    - Cardinality(UnnamedItems \cup SkippedItems)

\* C27 witness: the first descriptor's source declares no contract, the
\* second's does; the command has succeeded with one identifier and the
\* first descriptor's test was copied
C27_Witness ==
  /\ cmd.name = "create-category" /\ KnownKey /\ status = "exit0"
  /\ UnnamedItems = {1} /\ SkippedItems = {}
  /\ Len(contractNames) = 1
  /\ \E c \in Range(copyLog) : c[1] = CategoryInfo.contracts[1].test
  /\ \E c \in Range(copyLog) : c[1] = CategoryInfo.contracts[2].path

\* the lines of docs/SUMMARY.md
SummaryLines == Split(summaryFile.text)

\* C28: starting from an absent index, after any sequence of merges every
\* link line of docs/SUMMARY.md has a category header line somewhere above
\* it, and the link of every merged entry that is in the document is listed
\* under the header of that entry's category.
C28_EveryLinkInItsBlock ==
  summaryFile.exists
    => /\ \A i \in 1..Len(SummaryLines) :
            IsLinkLine(SummaryLines[i])
              => \E j \in 1..(i - 1) : IsHeaderLine(SummaryLines[j])
       /\ \A k \in 1..Len(calls) :
            (\E i \in 1..Len(SummaryLines) : SummaryLines[i] = Link(calls[k]))
              => \E m \in 1..Len(calls) :
                   /\ Link(calls[m]) = Link(calls[k])
                   /\ Link(calls[m])
                        \in Range(BlockLinks(summaryFile.text, CategoryHeader(calls[m])))

\* the keys whose link the run added to docs/SUMMARY.md
LinksAdded ==
  {i \in 1..Len(ExampleNames) :
     LET file == Basename(ExamplesConfig[ExampleNames[i]].output)
     IN /\ Linked(summaryFile.text, file)
        /\ ~Linked(SummaryRead(summary0), file)}

\* C29: after a run of generateAllDocs that has ended, every link the run
\* added to docs/SUMMARY.md points to a page the run wrote: the link of an
\* entry whose page could not be generated was not added.
C29_LinksPointToWrittenPages ==
  (cmd.name = "generate-all" /\ status = "exit0" /\ runs = 0)
    => \A i \in LinksAdded :
         /\ ~PageFails(i)
         /\ PageWritten(ExampleNames[i])

\* the source or the test of the example generateDocs was called for is missing
InputMissing ==
  /\ cmd.name = "generate-docs"
  /\ cmd.key \in DOMAIN ExamplesConfig
  /\ \/ ~ExistsSync(repo, ExamplesConfig[cmd.key].contract)
     \/ ~ExistsSync(repo, ExamplesConfig[cmd.key].test)

\* C30: generateDocs for one example whose contract or test file is missing
\* ends the process with status 1 and the file-not-found error, writes no
\* page, makes no directory and neither creates nor changes docs/SUMMARY.md;
\* and whenever generateDocs has merged into the index, the page is written.
C30_PageBeforeIndexOrNothing ==
  /\ InputMissing
       => /\ docs = docs0
          /\ summaryFile = summary0
          /\ calls = <<>>
          /\ Exited => (status = "exit1" /\ err = "File not found")
  /\ (cmd.name = "generate-docs" /\ calls # <<>>)
       => /\ PageWritten(cmd.key)
          /\ calls = <<ExamplesConfig[cmd.key]>>

\* C30 witness: the contract is there and the test is not; the command has
\* ended with the error, docs/ and SUMMARY.md were absent and still are
C30_Witness ==
  /\ InputMissing /\ Exited
  /\ ExistsSync(repo, ExamplesConfig[cmd.key].contract)
  /\ docs0 = NoTree /\ docs = NoTree
  /\ ~summaryFile.exists

====
